---- MODULE Spec2Model ----
(***************************************************************************)
(* A model of the quasi-1D flow residual engine of src/oneD/StFlow.cpp:    *)
(* grid state (StFlow::resize, StFlow::setupGrid), the residual assembly   *)
(* (StFlow::eval, PorousFlow::eval, the boundary/continuity strategies),   *)
(* the diffusive-flux update (StFlow::updateDiffFluxes), the flame-anchor  *)
(* relocation (FreeFlame::_finalize) and the porous solid subsolver        *)
(* (PorousFlow::solid).                                                    *)
(*                                                                         *)
(* Arrays keep the source's 0-based indices: an array of length n is a     *)
(* function on 0..n-1.  Floating-point numbers are modelled by exact       *)
(* integers or exact rationals <<numerator, denominator>>; rounding is not *)
(* modelled.                                                               *)
(***************************************************************************)
EXTENDS Integers, Sequences, FiniteSets, TLC

VARIABLES
    \* ---- grid state and per-point arrays (StFlow members) ----
    m_points,       \* number of grid points
    m_z,            \* grid coordinates, 0..m_points-1
    m_dz,           \* grid spacings, 0..m_points-2
    m_rho,          \* density cache
    m_wtm,          \* mean molecular weight cache
    m_cp,           \* heat capacity cache
    m_visc,         \* viscosity cache
    m_tcon,         \* thermal conductivity cache
    m_do_energy,    \* per-point energy flags
    m_qdotRadiation,\* per-point radiative sink
    m_fixedtemp,    \* per-point fixed temperature profile
    \* ---- the last setupGrid call: its arguments and its outcome ----
    gridCall,       \* [n, increasing, z, err]: n, whether the argument z was
                    \* strictly increasing, z itself when it was, and the
                    \* outcome err \in {"none", "ok", "InvalidGrid"}
    \* ---- engine configuration ----
    variant,        \* "axi" (AxiStagnFlow), "free" (FreeFlame), "porous" (PorousFlow)
    firstPt,        \* Domain1D::firstPoint(): global index of local point 0
    m_transport_option, \* "none" (-1), "mixav" or "multi"
    m_do_soret,
    m_do_radiation,
    m_dovisc,       \* whether the viscosity is evaluated
    \* ---- the caller's solution, the previous time step, the providers ----
    x,              \* [u, V, T, L: point -> Int, Y: species -> point -> rational]
    x_prev,         \* the stored previous-step solution, same shape
    env,            \* what the thermo, transport and kinetics providers return
                    \* for the current solution (see EnvOf)
    \* ---- transport and flux caches ----
    m_diff,         \* species -> point -> rational
    m_multidiff,    \* species -> species -> point -> Int
    m_dthermal,     \* species -> point -> Int
    m_flux,         \* species -> interval -> rational
    m_wdot,         \* species -> point -> Int
    \* ---- the caller's residual and flag buffers (this domain's part) ----
    rsd,            \* component -> point -> rational
    diag,           \* component -> point -> Int
    evalCall,       \* the last eval call: [jg, rdt, status, jmin, jmax, j0, j1], rdt
                    \* being the reciprocal time step the rows were formed with
    \* ---- PorousFlow members ----
    porous,         \* [pore1, pore2, diam1, diam2, zmid, dzmid, srho, sCp, Omega1, Omega2]
    pore,           \* point -> rational
    diam,           \* point -> rational
    scond,          \* solid conductivity, point -> rational
    hconv,          \* point -> Int
    Tw,             \* solid temperature, point -> rational
    dq,             \* net radiative flux, point -> rational
    dosolid,        \* the container's trigger flag
    \* ---- PorousFlow::solid: the member Twprev, the locals of the call ----
    solidPc,        \* where the call stands: "idle", "outer" (at the test of
                    \* the outer loop), "inner" (at the test of the two-flux
                    \* loop), "returned"
    Twprev,         \* the solid temperature saved at entry
    count1,         \* outer passes begun
    fail1,          \* 1 once the outer loop ran past its cap
    change1,        \* the square of the outer change norm
    count,          \* two-flux passes begun in the current outer pass
    fail,           \* 1 once the two-flux loop ran past its cap
    change2,        \* the square of the two-flux change norm
    dqnew,          \* the net radiative flux computed in the current pass
    solidEntry,     \* [Tw, dq] as they were when the call started
    \* ---- FreeFlame members ----
    m_zfixed,       \* anchor coordinate, or Undef
    m_tfixed,       \* anchor temperature, or Undef
    m_zfix,         \* the fixed temperature profile handed to the engine:
                    \* [nz, tt], its number of nodes and what interpolating it
                    \* gives at each grid point
    finLog,         \* the anchors <<m_zfixed, m_tfixed>> before the first and
                    \* after each _finalize call of this behaviour
    \* ---- transport selection and restore ----
    m_trans,        \* the transport manager last handed to setTransport, by its
                    \* model: "none" (null), "mixav", "multi" or "other"
    m_do_species,   \* per-species flag: the species equation is enabled
    lastCall,       \* the last setTransport, enableSoret or restore call:
                    \* [op, arg, status], op = "none" before the first
    selectedOk,     \* whether a setTransport call has returned without error
    evalLog,        \* what happened to the container's trigger flag: the
                    \* initial flag, then one entry per raising of the flag
                    \* and per eval call that has returned, each with the flag
                    \* it left
    \* ---- InterfaceKinetics: phase existence ----
    m_phaseExists,  \* per phase, in the order of addPhase: the phase exists
    m_phaseIsStable,    \* per phase: the phase is stable
    m_phaseExistsCheck, \* int: the phase-existence check counter
    kinCall         \* the last call on the kinetics object: [op, status], and
                    \* for updateROP whether the phase-existence block ran
                    \* and the rates of progress of the reaction it left

gridVars == <<m_points, m_z, m_dz, m_rho, m_wtm, m_cp, m_visc, m_tcon,
              m_do_energy, m_qdotRadiation, m_fixedtemp, gridCall>>

configVars == <<variant, firstPt, m_transport_option, m_do_soret, m_do_radiation,
                m_dovisc>>

solutionVars == <<x, x_prev, env>>

cacheVars == <<m_diff, m_multidiff, m_dthermal, m_flux, m_wdot>>

bufferVars == <<rsd, diag, evalCall>>

porousVars == <<porous, pore, diam, scond, hconv, Tw, dq, dosolid>>

solidVars == <<solidPc, Twprev, count1, fail1, change1, count, fail, change2, dqnew,
               solidEntry>>

anchorVars == <<m_zfixed, m_tfixed, m_zfix, finLog>>

kineticsVars == <<m_phaseExists, m_phaseIsStable, m_phaseExistsCheck, kinCall>>

callVars == <<m_trans, m_do_species, lastCall, selectedOk, evalLog, kineticsVars>>

vars == <<gridVars, configVars, solutionVars, cacheVars, bufferVars, porousVars,
          solidVars, anchorVars, callVars>>

-----------------------------------------------------------------------------
(* Bounds of the model *)

\* largest number of grid points of a grid handed to setupGrid
MaxPoints == 3

\* grid coordinates handed to setupGrid are drawn from 0..MaxCoord
MaxCoord == 3

\* number of species of the gas mixture (m_nsp)
NSp == 2

-----------------------------------------------------------------------------
(* std::vector<T>::resize(n, fill): keeps the first n old elements, appends *)
(* fill for the new ones.                                                   *)
VecResize(v, n, fill) ==
    [i \in 0..(n-1) |-> IF i \in DOMAIN v THEN v[i] ELSE fill]

-----------------------------------------------------------------------------
(* Exact arithmetic for the doubles of the source.  A number is a pair      *)
(* <<n, d>> in lowest terms with d >= 0; d = 0 stands for the IEEE specials *)
(* the divisions of the source can produce: <<1,0>> is +inf, <<-1,0>> -inf  *)
(* and <<0,0>> NaN.                                                         *)
Abs(a) == IF a < 0 THEN -a ELSE a

Sign(a) == IF a < 0 THEN -1 ELSE IF a > 0 THEN 1 ELSE 0

RECURSIVE Gcd(_, _)
Gcd(a, b) == IF b = 0 THEN a ELSE Gcd(b, a % b)

Rat(n, d) ==
    IF d = 0 THEN <<Sign(n), 0>>
    ELSE LET g == Gcd(Abs(n), Abs(d))
         IN  <<(Sign(d) * n) \div g, Abs(d) \div g>>

R(n) == <<n, 1>>

\* (the finite cases divide common factors out before they multiply, to
\* stay within the integers of the checker)
RAdd(a, b) ==
    IF a[2] = 0 /\ b[2] = 0 THEN (IF a = b THEN a ELSE <<0, 0>>)
    ELSE IF a[2] = 0 \/ b[2] = 0 THEN Rat(a[1] * b[2] + b[1] * a[2], 0)
    ELSE CHOOSE v \in {Rat(a[1] * (b[2] \div g) + b[1] * (a[2] \div g),
                           (a[2] \div g) * b[2]) : g \in {Gcd(a[2], b[2])}} : TRUE

RNeg(a) == <<-a[1], a[2]>>

RSub(a, b) == RAdd(a, RNeg(b))

RMul(a, b) ==
    IF a[2] = 0 \/ b[2] = 0 \/ a[1] = 0 \/ b[1] = 0 THEN Rat(a[1] * b[1], a[2] * b[2])
    ELSE CHOOSE v \in {<<(a[1] \div g) * (b[1] \div h), (a[2] \div h) * (b[2] \div g)>> :
                       g \in {Gcd(Abs(a[1]), b[2])}, h \in {Gcd(Abs(b[1]), a[2])}} : TRUE

RDiv(a, b) ==
    IF b[1] = 0 THEN Rat(a[1] * b[2], 0)
    ELSE RMul(a, <<Sign(b[1]) * b[2], Abs(b[1])>>)

RZero == R(0)

\* the sum of f[i] over the integer range lo..hi
RECURSIVE RSum(_, _, _)
RSum(f, lo, hi) == IF lo > hi THEN RZero ELSE RAdd(f[lo], RSum(f, lo + 1, hi))

\* the element of a one-element set
Only(S) == CHOOSE v \in S : TRUE

\* The significand of the binary floating-point numbers the solid subsolver
\* computes in.  (The doubles of the source have 53 bits; an odd number
\* of bits rounds 0.1 and 1 - 0.1 the way 53 bits do.)
FloatBits == 7

\* These numbers lie below 2^FloatMaxExp in absolute value; a result at or
\* beyond it is an infinity.
FloatMaxExp == 14

Pow2(n) == 2^n

\* The smallest exponent of these numbers: below 2^(FloatBits-1-FloatMinExp)
\* they are the multiples of 2^(-FloatMinExp) (gradual underflow).
FloatMinExp == 12

\* Long division of n/d = (m + r/d) / 2^s: binary digits are taken until the
\* significand m has FloatBits bits or the smallest exponent is reached.
RECURSIVE Significand(_, _, _, _)
Significand(m, r, d, s) ==
    IF m >= Pow2(FloatBits - 1) \/ s = FloatMinExp THEN <<m, r, s>>
    ELSE IF r >= d - r THEN Significand(2 * m + 1, r - (d - r), d, s + 1)
    ELSE Significand(2 * m, 2 * r, d, s + 1)

\* n/d > 0 rounded to FloatBits significant bits, to nearest, ties to even
RECURSIVE RoundPos(_, _)
RoundPos(n, d) ==
    IF n \div Pow2(FloatBits) >= d THEN RMul(R(2), RoundPos(n, 2 * d))
    ELSE \* g = <<m, r, s>>: up when the remainder exceeds one half, or is
         \* one half and m is odd
         CHOOSE v \in {Rat(IF g[2] > d - g[2] \/ (g[2] = d - g[2] /\ g[1] % 2 = 1)
                           THEN g[1] + 1 ELSE g[1], Pow2(g[3])) :
                       g \in {Significand(n \div d, n % d, d, 0)}} : TRUE

\* the floating-point number a real result is stored as
fl(a) ==
    IF a[2] = 0 \/ a[1] = 0 THEN a
    ELSE IF Abs(a[1]) \div Pow2(FloatMaxExp) >= a[2] THEN <<Sign(a[1]), 0>>
    ELSE CHOOSE v \in {IF r[1] >= Pow2(FloatMaxExp) * r[2] THEN <<Sign(a[1]), 0>>
                       ELSE <<Sign(a[1]) * r[1], r[2]>> :
                       r \in {RoundPos(Abs(a[1]), a[2])}} : TRUE

\* the four operations on doubles
FAdd(a, b) == fl(RAdd(a, b))

FSub(a, b) == fl(RSub(a, b))

FMul(a, b) == fl(RMul(a, b))

FDiv(a, b) == fl(RDiv(a, b))

\* f[lo] + ... + f[hi] accumulated from lo upwards
RECURSIVE FSum(_, _, _)
FSum(f, lo, hi) == IF lo > hi THEN RZero ELSE FAdd(FSum(f, lo, hi - 1), f[hi])

-----------------------------------------------------------------------------
(* Grid state: StFlow::resize and StFlow::setupGrid *)

\* The per-point arrays and the grid arrays as one record, so that resize and
\* setupGrid are functions from engine state to engine state.
GridState ==
    [points |-> m_points, z |-> m_z, dz |-> m_dz, rho |-> m_rho, wtm |-> m_wtm,
     cp |-> m_cp, visc |-> m_visc, tcon |-> m_tcon, do_energy |-> m_do_energy,
     qdot |-> m_qdotRadiation, fixedtemp |-> m_fixedtemp]

\* StFlow::resize(ncomponents, points): Domain1D::resize records the new point
\* count in m_points, then every per-point array is resized to it and the
\* spacing array to m_points-1.  Old entries are kept, new ones are 0 (false).
resize(g, points) ==
    [points    |-> points,
     rho       |-> VecResize(g.rho, points, 0),
     wtm       |-> VecResize(g.wtm, points, RZero),
     cp        |-> VecResize(g.cp, points, 0),
     visc      |-> VecResize(g.visc, points, 0),
     tcon      |-> VecResize(g.tcon, points, 0),
     do_energy |-> VecResize(g.do_energy, points, FALSE),
     qdot      |-> VecResize(g.qdot, points, 0),
     fixedtemp |-> VecResize(g.fixedtemp, points, 0),
     dz        |-> VecResize(g.dz, points - 1, 0),
     z         |-> VecResize(g.z, points, 0)]

\* Mutant of setupGridLoop: the monotonicity test accepts equal neighbours
\* (z[j] < z[j-1] instead of z[j] <= z[j-1]).
RECURSIVE setupGridLoop_NonStrict(_, _, _)
setupGridLoop_NonStrict(g, z, j) ==
    IF j >= g.points THEN [g |-> g, err |-> "ok"]
    ELSE IF z[j] < z[j-1] THEN [g |-> g, err |-> "InvalidGrid"]
    ELSE LET gz == [g EXCEPT !.z[j] = z[j]]
             gd == [gz EXCEPT !.dz[j-1] = gz.z[j] - gz.z[j-1]]
         IN  setupGridLoop_NonStrict(gd, z, j + 1)

\* The loop of StFlow::setupGrid from index j on: throws at the first j with
\* z[j] <= z[j-1], otherwise stores z[j] and the spacing to its left.
RECURSIVE setupGridLoop(_, _, _)
setupGridLoop(g, z, j) ==
    IF j >= g.points THEN [g |-> g, err |-> "ok"]
    ELSE IF z[j] <= z[j-1] THEN [g |-> g, err |-> "InvalidGrid"]
    ELSE LET gz == [g EXCEPT !.z[j] = z[j]]
             gd == [gz EXCEPT !.dz[j-1] = gz.z[j] - gz.z[j-1]]
         IN  setupGridLoop(gd, z, j + 1)

\* StFlow::setupGrid(n, z): resize first, store z[0], then the loop.
setupGrid(g, n, z) ==
    LET r  == resize(g, n)
        r0 == [r EXCEPT !.z[0] = z[0]]
    IN  setupGridLoop(r0, z, 1)

\* The engine's grid members after the call that returned g.
StoreGrid(g) ==
    /\ m_points' = g.points
    /\ m_z' = g.z
    /\ m_dz' = g.dz
    /\ m_rho' = g.rho
    /\ m_wtm' = g.wtm
    /\ m_cp' = g.cp
    /\ m_visc' = g.visc
    /\ m_tcon' = g.tcon
    /\ m_do_energy' = g.do_energy
    /\ m_qdotRadiation' = g.qdot
    /\ m_fixedtemp' = g.fixedtemp

\* An all-zero array of length n.
Zeros(n) == [i \in 0..(n-1) |-> 0]

\* The engine after StFlow::StFlow(ph, nsp, points): the per-point arrays are
\* sized by resize and the grid is the uniform grid ng/points, in units of
\* 1/points.
ConstructedGrid(points) ==
    setupGrid([points |-> 0, z |-> Zeros(0), dz |-> Zeros(0), rho |-> Zeros(0),
               wtm |-> Zeros(0), cp |-> Zeros(0), visc |-> Zeros(0),
               tcon |-> Zeros(0), do_energy |-> Zeros(0), qdot |-> Zeros(0),
               fixedtemp |-> Zeros(0)],
              points, [ng \in 0..(points-1) |-> ng]).g

-----------------------------------------------------------------------------
(* The solution vector and its accessors.  The accessors are the inline     *)
(* members of StFlow (declared in StFlow.h); each is used by the code of    *)
(* StFlow.cpp at the lines the map names.                                   *)

Species == 0..(NSp - 1)

\* component offsets of the solution vector: u, V, T, lambda, then Y_k
c_offset_U == 0
c_offset_V == 1
c_offset_T == 2
c_offset_L == 3
c_offset_Y == 4

Components == 0..(c_offset_Y + NSp - 1)

\* m_wt: the molecular weight of species k
m_wt(k) == 3 * (k + 1)

\* the gas constant, J/kmol/K, rounded to an integer
GasConstant == 8314

\* the value of an anchor that has not been set (Undef is -999.1234)
Undef == -999

\* size_t arithmetic: unsigned, modulo SizeMod
SizeMod == 2^16
npos == SizeMod - 1
SzAdd(a, b) == (a + b) % SizeMod
SzSub(a, b) == (a - b + SizeMod) % SizeMod
Max(a, b) == IF a < b THEN b ELSE a
Min(a, b) == IF b < a THEN b ELSE a

\* A context c gathers what one eval call reads: the solution sol, the grid
\* and the caches as they are at that place of the call.
T(c, j) == R(c.sol.T[j])
u(c, j) == R(c.sol.u[j])
V(c, j) == R(c.sol.V[j])
lambda(c, j) == R(c.sol.L[j])
Y(c, k, j) == c.sol.Y[k][j]
z(c, j) == R(c.z[j])
dzR(c, j) == R(c.dz[j])
density(c, j) == R(c.rho[j])
rho_u(c, j) == RMul(R(c.rho[j]), u(c, j))
X(c, k, j) == RDiv(RMul(c.wtm[j], Y(c, k, j)), R(m_wt(k)))
flux(c, k, j) == c.flux[k][j]
wdot(c, k, j) == R(c.wdot[k][j])
T_fixed(c, j) == R(c.fixedtemp[j])
T_prev(c, j) == R(c.prev.T[j])
V_prev(c, j) == R(c.prev.V[j])
Y_prev(c, k, j) == c.prev.Y[k][j]

\* upwind differences: the stencil looks left when u(j) > 0, right otherwise
jloc(c, j) == IF c.sol.u[j] > 0 THEN j ELSE j + 1
dVdz(c, j) == RDiv(RSub(V(c, jloc(c, j)), V(c, jloc(c, j) - 1)), dzR(c, jloc(c, j) - 1))
dTdz(c, j) == RDiv(RSub(T(c, jloc(c, j)), T(c, jloc(c, j) - 1)), dzR(c, jloc(c, j) - 1))
dYdz(c, k, j) ==
    RDiv(RSub(Y(c, k, jloc(c, j)), Y(c, k, jloc(c, j) - 1)), dzR(c, jloc(c, j) - 1))

\* central second differences with the interval coefficients visc and tcon
shear(c, j) ==
    LET c1 == RMul(R(c.visc[j-1]), RSub(V(c, j), V(c, j-1)))
        c2 == RMul(R(c.visc[j]), RSub(V(c, j+1), V(c, j)))
    IN  RDiv(RMul(R(2), RSub(RDiv(c2, RSub(z(c, j+1), z(c, j))),
                             RDiv(c1, RSub(z(c, j), z(c, j-1))))),
             RSub(z(c, j+1), z(c, j-1)))

divHeatFlux(c, j) ==
    LET c1 == RMul(R(c.tcon[j-1]), RSub(T(c, j), T(c, j-1)))
        c2 == RMul(R(c.tcon[j]), RSub(T(c, j+1), T(c, j)))
    IN  RDiv(RMul(R(-2), RSub(RDiv(c2, RSub(z(c, j+1), z(c, j))),
                              RDiv(c1, RSub(z(c, j), z(c, j-1))))),
             RSub(z(c, j+1), z(c, j-1)))

-----------------------------------------------------------------------------
(* Property cache updates *)

\* StFlow::updateThermo(x, j0, j1): density, mean molecular weight and heat
\* capacity of the points j0..j1 are read back from the thermo provider.
updateThermo(c, j0, j1) ==
    [c EXCEPT
       !.rho = [j \in DOMAIN c.rho |-> IF j0 <= j /\ j <= j1 THEN c.env.rho[j] ELSE c.rho[j]],
       !.wtm = [j \in DOMAIN c.wtm |-> IF j0 <= j /\ j <= j1 THEN c.env.wtm[j] ELSE c.wtm[j]],
       !.cp  = [j \in DOMAIN c.cp  |-> IF j0 <= j /\ j <= j1 THEN c.env.cp[j] ELSE c.cp[j]]]

\* StFlow::updateTransport(x, j0, j1): the transport properties of the
\* interval midpoints j0..j1-1, by the active model; nothing when no model
\* is selected.
updateTransport(c, j0, j1) ==
    LET in(j) == j0 <= j /\ j < j1
        visc == [j \in DOMAIN c.visc |->
                   IF in(j) THEN (IF c.dovisc THEN c.env.visc[j] ELSE 0) ELSE c.visc[j]]
        tcon == [j \in DOMAIN c.tcon |-> IF in(j) THEN c.env.tcon[j] ELSE c.tcon[j]]
    IN  IF c.option = "mixav" THEN
            [c EXCEPT !.visc = visc, !.tcon = tcon,
                      !.diff = [k \in Species |-> [j \in DOMAIN c.diff[k] |->
                                  IF in(j) THEN R(c.env.mixdiff[k][j]) ELSE c.diff[k][j]]]]
        ELSE IF c.option = "multi" THEN
            [c EXCEPT !.visc = visc, !.tcon = tcon,
                      !.multidiff = [k \in Species |-> [m \in Species |->
                                      [j \in DOMAIN c.multidiff[k][m] |->
                                        IF in(j) THEN c.env.multidiff[k][m][j]
                                        ELSE c.multidiff[k][m][j]]]],
                      !.diff = [k \in Species |-> [j \in DOMAIN c.diff[k] |->
                                  IF in(j)
                                  THEN RDiv(RMul(R(m_wt(k)), R(c.env.rho_mid[j])),
                                            RMul(R(c.env.wtm_mid[j]), R(c.env.wtm_mid[j])))
                                  ELSE c.diff[k][j]]],
                      !.dthermal = [k \in Species |-> [j \in DOMAIN c.dthermal[k] |->
                                      IF in(j) /\ c.soret THEN c.env.dthermal[k][j]
                                      ELSE c.dthermal[k][j]]]]
        ELSE c

\* Mixture-averaged flux of species k over interval j before the correction
\* (StFlow::updateDiffFluxes, the first loop over k).
MixavRawFlux(c, k, j) ==
    RMul(RMul(R(m_wt(k)), RDiv(RMul(density(c, j), c.diff[k][j]), c.wtm[j])),
         RDiv(RSub(X(c, k, j), X(c, k, j+1)), RSub(z(c, j+1), z(c, j))))

\* "sum" after the first loop over k: minus the sum of the raw fluxes.
MixavImbalance(c, j) ==
    RNeg(RSum([k \in Species |-> MixavRawFlux(c, k, j)], 0, NSp - 1))

\* The corrected flux: the imbalance is redistributed by the mass fractions
\* of point j.
MixavFlux(c, k, j) ==
    RAdd(MixavRawFlux(c, k, j), RMul(MixavImbalance(c, j), Y(c, k, j)))

\* Multicomponent flux of species k over interval j.
MultiFlux(c, k, j) ==
    RDiv(RMul(RSum([m \in Species |->
                      RMul(R(m_wt(m) * c.multidiff[k][m][j]),
                           RSub(X(c, m, j+1), X(c, m, j)))], 0, NSp - 1),
              c.diff[k][j]),
         RSub(z(c, j+1), z(c, j)))

\* The Soret term of interval m: the thermal-diffusion coefficient times the
\* logarithmic temperature gradient at the interval midpoint.
gradlogT(c, m) ==
    RDiv(RMul(R(2), RSub(T(c, m+1), T(c, m))),
         RMul(RAdd(T(c, m+1), T(c, m)), RSub(z(c, m+1), z(c, m))))

\* StFlow::updateDiffFluxes(x, j0, j1): the fluxes of the intervals j0..j1-1
\* by the active model, then the Soret term; throws when no model is selected.
updateDiffFluxes(c, j0, j1) ==
    LET in(j) == j0 <= j /\ j < j1
        model(k, j) == IF c.option = "mixav" THEN MixavFlux(c, k, j)
                       ELSE MultiFlux(c, k, j)
        soret(k, j) == IF c.soret
                       THEN RMul(R(c.dthermal[k][j]), gradlogT(c, j))
                       ELSE RZero
    IN  IF c.option \notin {"mixav", "multi"}
        THEN [c |-> c, err |-> "UnknownTransportModel"]
        ELSE [c |-> [c EXCEPT !.flux = [k \in Species |-> [j \in DOMAIN c.flux[k] |->
                                          IF in(j) THEN RSub(model(k, j), soret(k, j))
                                          ELSE c.flux[k][j]]]],
              err |-> "ok"]

-----------------------------------------------------------------------------
(* The window of an eval call *)

\* Domain1D::lastPoint()
lastPoint(c) == SzSub(SzAdd(c.firstPt, c.points), 1)

\* The domain-of-influence test at the head of eval: TRUE when the call
\* returns at once.
EvalSkipped(c, jg) ==
    jg # npos /\ (SzAdd(jg, 1) < c.firstPt \/ jg > SzAdd(lastPoint(c), 1))

\* jmin, jmax (the rows assembled) and j0, j1 (the points whose properties
\* are updated), in size_t arithmetic.
EvalWindow(c, jg) ==
    LET jpt  == IF jg = 0 THEN 0 ELSE SzSub(jg, c.firstPt)
        jmin == IF jg = npos THEN 0 ELSE SzSub(Max(jpt, 1), 1)
        jmax == IF jg = npos THEN SzSub(c.points, 1)
                ELSE Min(SzAdd(jpt, 1), SzSub(c.points, 1))
    IN  [jmin |-> jmin, jmax |-> jmax,
         j0 |-> SzSub(Max(jmin, 1), 1),
         j1 |-> Min(SzAdd(jmax, 1), SzSub(c.points, 1))]

-----------------------------------------------------------------------------
(* Radiation sink and porous profiles *)

\* The radiation block of StFlow::eval: the sink of the points jmin..jmax-1
\* is recomputed from the current solution (the polynomial fit of the Planck
\* coefficients is the provider value env.qrad), when radiation is enabled.
updateRadiation(c, jmin, jmax) ==
    IF c.do_radiation
    THEN [c EXCEPT !.qdot = [j \in DOMAIN c.qdot |->
                               IF jmin <= j /\ j < jmax THEN c.env.qrad[j]
                               ELSE c.qdot[j]]]
    ELSE c

\* PorousFlow::eval, the profile loop: a property is v1 left of the band
\* [zmid - dzmid, zmid + dzmid], v2 right of it and interpolated inside.
PorousProfile(c, v1, v2, i) ==
    LET lo == c.porous.zmid - c.porous.dzmid
        hi == c.porous.zmid + c.porous.dzmid
    IN  IF c.z[i] < lo THEN v1
        ELSE IF c.z[i] > hi THEN v2
        ELSE RAdd(RMul(RDiv(RSub(v2, v1), R(2 * c.porous.dzmid)), R(c.z[i] - lo)), v1)

\* PorousFlow::eval up to the solid subsolver: porosity, pore diameter and
\* solid conductivity 0.188 - 17.5 diam of every point, the convective
\* coefficient of the points jmin..jmax (the
\* Nusselt correlation is the provider value env.hconv).
updatePorous(c, jmin, jmax) ==
    [c EXCEPT
       !.pore = [i \in 0..(c.points - 1) |->
                   PorousProfile(c, c.porous.pore1, c.porous.pore2, i)],
       !.diam = [i \in 0..(c.points - 1) |->
                   PorousProfile(c, c.porous.diam1, c.porous.diam2, i)],
       !.scond = [i \in 0..(c.points - 1) |->
                    RSub(<<47, 250>>,
                         RMul(<<35, 2>>,
                              PorousProfile(c, c.porous.diam1, c.porous.diam2, i)))],
       !.hconv = [i \in 0..(c.points - 1) |->
                    IF jmin <= i /\ i <= jmax THEN c.env.hconv[i]
                    ELSE IF i \in DOMAIN c.hconv THEN c.hconv[i] ELSE 0]]

-----------------------------------------------------------------------------
(* Residual rows.  Each operator gives the value the code writes to         *)
(* rsd[index(n, j)].                                                         *)

\* the left boundary rows of StFlow::eval and PorousFlow::eval (j = 0)
LeftRow(c, n) ==
    IF n = c_offset_U THEN
        RSub(RNeg(RDiv(RSub(rho_u(c, 1), rho_u(c, 0)), dzR(c, 0))),
             RAdd(RMul(density(c, 1), V(c, 1)), RMul(density(c, 0), V(c, 0))))
    ELSE IF n = c_offset_V THEN V(c, 0)
    ELSE IF n = c_offset_T THEN T(c, 0)
    ELSE IF n = c_offset_L THEN RNeg(rho_u(c, 0))
    ELSE IF n = c_offset_Y THEN
        RSub(R(1), RSum([k \in Species |-> Y(c, k, 0)], 0, NSp - 1))
    ELSE RNeg(RAdd(flux(c, n - c_offset_Y, 0),
                   RMul(rho_u(c, 0), Y(c, n - c_offset_Y, 0))))

\* Mutant of RightRow: every variant takes the zero-gradient temperature and
\* mass-flux rows of the free flame.
RightRow_ZeroGradient(c, n) ==
    LET j == c.points - 1
    IN  IF n = c_offset_U THEN RSub(rho_u(c, j), rho_u(c, j-1))
        ELSE IF n = c_offset_V THEN V(c, j)
        ELSE IF n = c_offset_T THEN RSub(T(c, j), T(c, j-1))
        ELSE IF n = c_offset_L THEN RSub(lambda(c, j), lambda(c, j-1))
        ELSE IF n = c_offset_Y THEN
            RSub(R(1), RSum([k \in Species |-> Y(c, k, j)], 0, NSp - 1))
        ELSE RAdd(flux(c, n - c_offset_Y, j-1),
                  RMul(rho_u(c, j), Y(c, n - c_offset_Y, j)))

\* AxiStagnFlow::evalRightBoundary and FreeFlame::evalRightBoundary
RightRow(c, n) ==
    LET j == c.points - 1
    IN  IF n = c_offset_U THEN
            (IF c.variant = "free" THEN RSub(rho_u(c, j), rho_u(c, j-1)) ELSE rho_u(c, j))
        ELSE IF n = c_offset_V THEN V(c, j)
        ELSE IF n = c_offset_T THEN
            (IF c.variant = "free" THEN RSub(T(c, j), T(c, j-1)) ELSE T(c, j))
        ELSE IF n = c_offset_L THEN RSub(lambda(c, j), lambda(c, j-1))
        ELSE IF n = c_offset_Y THEN
            RSub(R(1), RSum([k \in Species |-> Y(c, k, j)], 0, NSp - 1))
        ELSE RAdd(flux(c, n - c_offset_Y, j-1),
                  RMul(rho_u(c, j), Y(c, n - c_offset_Y, j)))

\* the flags evalRightBoundary writes: the lambda row and the first species row
RightDiagWritten(n) == n \in {c_offset_L, c_offset_Y}

\* The continuity row of interior point j: AxiStagnFlow::evalContinuity,
\* FreeFlame::evalContinuity, and the inline formula of PorousFlow::eval.
ContinuityRow(c, j) ==
    LET fwd == RSub(RNeg(RDiv(RSub(rho_u(c, j+1), rho_u(c, j)), dzR(c, j))),
                    RAdd(RMul(density(c, j+1), V(c, j+1)), RMul(density(c, j), V(c, j))))
        bwd == RSub(RNeg(RDiv(RSub(rho_u(c, j), rho_u(c, j-1)), dzR(c, j-1))),
                    RAdd(RMul(density(c, j-1), V(c, j-1)), RMul(density(c, j), V(c, j))))
    IN  IF c.variant = "axi" THEN fwd
        ELSE IF c.variant = "porous" THEN
            RSub(RNeg(RDiv(RSub(RMul(rho_u(c, j+1), c.pore[j+1]),
                                RMul(rho_u(c, j), c.pore[j])), dzR(c, j))),
                 RAdd(RMul(density(c, j+1), V(c, j+1)), RMul(density(c, j), V(c, j))))
        ELSE IF c.z[j] > c.zfixed THEN bwd
        ELSE IF c.z[j] = c.zfixed THEN
            (IF c.do_energy[j] THEN RSub(T(c, j), R(c.tfixed))
             ELSE RSub(rho_u(c, j), RMul(R(c.rho[0]), <<3, 10>>)))
        ELSE fwd

\* the radial momentum row of interior point j
MomentumRow(c, j, rdt) ==
    RSub(RDiv(RSub(RSub(RSub(shear(c, j), lambda(c, j)),
                        RMul(rho_u(c, j), dVdz(c, j))),
                   RMul(density(c, j), RMul(V(c, j), V(c, j)))),
              density(c, j)),
         RMul(R(rdt), RSub(V(c, j), V_prev(c, j))))

\* Mutant of SpeciesRow: the production rate enters the row without the
\* molecular weight of the species.
SpeciesRow_NoMolecularWeight(c, k, j, rdt) ==
    LET pj == IF c.variant = "porous" THEN c.pore[j] ELSE R(1)
        pl == IF c.variant = "porous" THEN c.pore[j-1] ELSE R(1)
        convec == RMul(RMul(rho_u(c, j), dYdz(c, k, j)), pj)
        diffus == RDiv(RMul(R(2), RSub(RMul(flux(c, k, j), pj), RMul(flux(c, k, j-1), pl))),
                       RSub(z(c, j+1), z(c, j-1)))
    IN  RSub(RDiv(RSub(RSub(RMul(wdot(c, k, j), pj), convec), diffus),
                  RMul(density(c, j), pj)),
             RMul(R(rdt), RSub(Y(c, k, j), Y_prev(c, k, j))))

\* the species row k of interior point j, StFlow::eval and PorousFlow::eval
SpeciesRow(c, k, j, rdt) ==
    IF c.variant = "porous" THEN
        LET convec == RMul(RMul(rho_u(c, j), dYdz(c, k, j)), c.pore[j])
            diffus == RDiv(RMul(R(2), RSub(RMul(flux(c, k, j), c.pore[j]),
                                           RMul(flux(c, k, j-1), c.pore[j-1]))),
                           RSub(z(c, j+1), z(c, j-1)))
        IN  RSub(RDiv(RSub(RSub(RMul(R(m_wt(k)), RMul(wdot(c, k, j), c.pore[j])),
                                convec), diffus),
                      RMul(density(c, j), c.pore[j])),
                 RMul(R(rdt), RSub(Y(c, k, j), Y_prev(c, k, j))))
    ELSE
        LET convec == RMul(rho_u(c, j), dYdz(c, k, j))
            diffus == RDiv(RMul(R(2), RSub(flux(c, k, j), flux(c, k, j-1))),
                           RSub(z(c, j+1), z(c, j-1)))
        IN  RSub(RDiv(RSub(RSub(RMul(R(m_wt(k)), wdot(c, k, j)), convec), diffus),
                      density(c, j)),
                 RMul(R(rdt), RSub(Y(c, k, j), Y_prev(c, k, j))))

\* the energy balance of interior point j when its energy flag is set
EnergyBalance(c, j, rdt) ==
    LET sum  == RMul(RSum([k \in Species |->
                             RMul(wdot(c, k, j), R(c.env.h_RT[k][j]))], 0, NSp - 1),
                     RMul(R(GasConstant), T(c, j)))
        sum2 == RMul(RSum([k \in Species |->
                             RDiv(RMul(RMul(<<1, 2>>, RAdd(flux(c, k, j-1), flux(c, k, j))),
                                       R(c.env.cp_R[k][j])),
                                  R(m_wt(k)))], 0, NSp - 1),
                     RMul(R(GasConstant), dTdz(c, j)))
        rhocp == RMul(density(c, j), R(c.cp[j]))
        bal  == RSub(RSub(RSub(RNeg(RMul(RMul(R(c.cp[j]), rho_u(c, j)), dTdz(c, j))),
                               divHeatFlux(c, j)), sum), sum2)
    IN  IF c.variant = "porous" THEN
            RSub(RDiv(RSub(bal, RDiv(RMul(R(c.hconv[j]), RSub(T(c, j), c.Tw[j])),
                                     c.pore[j])),
                      rhocp),
                 RMul(R(rdt), RSub(T(c, j), T_prev(c, j))))
        ELSE
            RSub(RSub(RDiv(bal, rhocp), RMul(R(rdt), RSub(T(c, j), T_prev(c, j)))),
                 RDiv(R(c.qdot[j]), rhocp))

\* Mutant of EnergyEnabled: the branch is taken by the energy flag of the
\* first point, not by the flag of point j.
EnergyEnabled_FlagOfFirstPoint(c, j) == c.do_energy[0]

\* the test if (m_do_energy[j]) of the temperature row of interior point j
EnergyEnabled(c, j) == c.do_energy[j]

\* The temperature row of interior point j: the energy balance when the flag
\* of j is set, T(j) - T_fixed(j) otherwise.
EnergyRow(c, j, rdt) ==
    IF EnergyEnabled(c, j) THEN EnergyBalance(c, j, rdt)
    ELSE RSub(T(c, j), T_fixed(c, j))

\* the row of component n of interior point j
InteriorRow(c, n, j, rdt) ==
    IF n = c_offset_U THEN ContinuityRow(c, j)
    ELSE IF n = c_offset_V THEN MomentumRow(c, j, rdt)
    ELSE IF n = c_offset_T THEN EnergyRow(c, j, rdt)
    ELSE IF n = c_offset_L THEN RSub(lambda(c, j), lambda(c, j-1))
    ELSE SpeciesRow(c, n - c_offset_Y, j, rdt)

\* The flag of component n of interior point j: continuity and lambda are
\* algebraic (0), momentum and species differential (1), the temperature row
\* differential when the energy flag of j is set.
InteriorDiag(c, n, j) ==
    IF n = c_offset_U THEN 0
    ELSE IF n = c_offset_V THEN 1
    ELSE IF n = c_offset_T THEN (IF EnergyEnabled(c, j) THEN 1 ELSE 0)
    ELSE IF n = c_offset_L THEN 0
    ELSE 1

\* The assembly loop for (j = jmin; j <= jmax; j++): the residual buffer.
AssembleRsd(c, old, jmin, jmax, rdt) ==
    [n \in Components |-> [j \in 0..(c.points - 1) |->
        IF ~(jmin <= j /\ j <= jmax) THEN old[n][j]
        ELSE IF j = 0 THEN LeftRow(c, n)
        ELSE IF j = c.points - 1 THEN RightRow(c, n)
        ELSE InteriorRow(c, n, j, rdt)]]

\* The assembly loop: the flag buffer.  The left boundary writes no flag,
\* the right boundary two.
AssembleDiag(c, old, jmin, jmax) ==
    [n \in Components |-> [j \in 0..(c.points - 1) |->
        IF ~(jmin <= j /\ j <= jmax) THEN old[n][j]
        ELSE IF j = 0 THEN old[n][j]
        ELSE IF j = c.points - 1 THEN (IF RightDiagWritten(n) THEN 0 ELSE old[n][j])
        ELSE InteriorDiag(c, n, j)]]

-----------------------------------------------------------------------------
(* StFlow::eval and PorousFlow::eval *)

\* What an eval call reads of the engine.
Ctx ==
    [sol |-> x, prev |-> x_prev, env |-> env,
     points |-> m_points, firstPt |-> firstPt, z |-> m_z, dz |-> m_dz,
     rho |-> m_rho, wtm |-> m_wtm, cp |-> m_cp, visc |-> m_visc, tcon |-> m_tcon,
     do_energy |-> m_do_energy, qdot |-> m_qdotRadiation, fixedtemp |-> m_fixedtemp,
     diff |-> m_diff, multidiff |-> m_multidiff, dthermal |-> m_dthermal,
     flux |-> m_flux, wdot |-> m_wdot,
     variant |-> variant, option |-> m_transport_option, soret |-> m_do_soret,
     do_radiation |-> m_do_radiation, dovisc |-> m_dovisc,
     porous |-> porous, pore |-> pore, diam |-> diam, scond |-> scond,
     hconv |-> hconv, Tw |-> Tw, dq |-> dq, Twprev |-> Twprev,
     zfixed |-> m_zfixed, tfixed |-> m_tfixed]

\* getWdot(x, j) at the interior points of jmin..jmax: the kinetics provider's
\* net production rates are stored in m_wdot.
getWdot(c, jmin, jmax) ==
    [c EXCEPT !.wdot = [k \in Species |-> [j \in DOMAIN c.wdot[k] |->
                          IF jmin <= j /\ j <= jmax /\ 0 < j /\ j < c.points - 1
                          THEN c.env.wdot[k][j] ELSE c.wdot[k][j]]]]

\* eval(jg, x, rsd, diag, rdt0) on engine c up to the residual loop: the
\* domain-of-influence test, the window, the property updates, the diffusive
\* fluxes, the radiation sink or the porous profiles.  status is "skipped",
\* the error thrown, or "ok".
\* the reciprocal time step of a call that keeps the argument in Jacobian
\* mode
steadyStateRdt_Kept(jg, rdt0) == rdt0

\* if (jg != npos) rdt = 0.0: a Jacobian evaluation computes the
\* steady-state residual
steadyStateRdt(jg, rdt0) == IF jg # npos THEN 0 ELSE rdt0

evalPrefix(c, jg, rdt0) ==
    IF EvalSkipped(c, jg)
    THEN [status |-> "skipped", c |-> c, rdt |-> 0,
          jmin |-> 0, jmax |-> 0, j0 |-> 0, j1 |-> 0]
    ELSE
      LET rdt == steadyStateRdt(jg, rdt0)
          w   == EvalWindow(c, jg)
          cv  == IF c.variant = "porous" THEN [c EXCEPT !.dovisc = TRUE] ELSE c
          c1  == updateThermo(cv, w.j0, w.j1)
          c2  == IF jg = npos THEN updateTransport(c1, w.j0, w.j1) ELSE c1
          f   == updateDiffFluxes(c2, w.j0, w.j1)
          c3  == IF c.variant = "porous" THEN updatePorous(f.c, w.jmin, w.jmax)
                 ELSE updateRadiation(f.c, w.jmin, w.jmax)
      IN  [status |-> f.err, c |-> IF f.err # "ok" THEN c2 ELSE c3, rdt |-> rdt,
           jmin |-> w.jmin, jmax |-> w.jmax, j0 |-> w.j0, j1 |-> w.j1]

\* The residual loop of eval after the prefix p, on the engine c the prefix
\* (and the solid subsolver, when it ran) left: the outcome, the engine and
\* the buffers after the call.
evalRows(p, c, oldrsd, olddiag) ==
    IF p.status # "ok"
    THEN [status |-> p.status, c |-> c, rsd |-> oldrsd, diag |-> olddiag,
          rdt |-> p.rdt, jmin |-> p.jmin, jmax |-> p.jmax, j0 |-> p.j0, j1 |-> p.j1]
    ELSE
      LET c4 == getWdot(c, p.jmin, p.jmax)
      IN  [status |-> "ok", c |-> c4, rdt |-> p.rdt,
           rsd  |-> AssembleRsd(c4, oldrsd, p.jmin, p.jmax, p.rdt),
           diag |-> AssembleDiag(c4, olddiag, p.jmin, p.jmax),
           jmin |-> p.jmin, jmax |-> p.jmax, j0 |-> p.j0, j1 |-> p.j1]

\* The whole call eval(jg, x, rsd, diag, rdt0) on engine c with the buffers
\* oldrsd, olddiag, when the solid subsolver does not run.
evalBody(c, jg, rdt0, oldrsd, olddiag) ==
    LET p == evalPrefix(c, jg, rdt0)
    IN  evalRows(p, p.c, oldrsd, olddiag)

\* the members an eval call can write, after the call that left the engine c
StoreEval(c) ==
    /\ m_rho' = c.rho
    /\ m_wtm' = c.wtm
    /\ m_cp' = c.cp
    /\ m_visc' = c.visc
    /\ m_tcon' = c.tcon
    /\ m_qdotRadiation' = c.qdot
    /\ m_diff' = c.diff
    /\ m_multidiff' = c.multidiff
    /\ m_dthermal' = c.dthermal
    /\ m_flux' = c.flux
    /\ m_wdot' = c.wdot
    /\ m_dovisc' = c.dovisc
    /\ pore' = c.pore
    /\ diam' = c.diam
    /\ scond' = c.scond
    /\ hconv' = c.hconv

\* the global points a Jacobian evaluation is asked for, besides npos: the
\* points of this domain and the two on either side of it
EvalPoints ==
    {npos} \cup {jg \in 0..(firstPt + m_points + 1) : jg + 2 >= firstPt}

NoEvalCall ==
    [jg |-> npos, rdt |-> 0, status |-> "none", jmin |-> 0, jmax |-> 0, j0 |-> 0, j1 |-> 0]

\* The solver calls eval once on the constructed engine, for the full residual
\* (jg = npos) or for the neighbourhood of one point, with the reciprocal
\* time step rdt0.  A porous engine whose solid trigger is raised runs the
\* solid subsolver inside the call; that call is the subject of the solid
\* actions below.
Eval ==
    /\ evalCall.status = "none"
    /\ m_points >= 2
    /\ ~(variant = "porous" /\ dosolid = 1)
    /\ \E jg \in EvalPoints : \E rdt0 \in 0..1 :
         \E r \in {evalBody(Ctx, jg, rdt0, rsd, diag)} :
             /\ StoreEval(r.c)
             /\ rsd' = r.rsd
             /\ diag' = r.diag
             /\ evalCall' = [jg |-> jg, rdt |-> r.rdt, status |-> r.status,
                             jmin |-> r.jmin, jmax |-> r.jmax, j0 |-> r.j0, j1 |-> r.j1]
    /\ UNCHANGED <<m_points, m_z, m_dz, m_do_energy, m_fixedtemp, gridCall>>
    /\ UNCHANGED <<variant, firstPt, m_transport_option, m_do_soret, m_do_radiation>>
    /\ UNCHANGED <<solutionVars, porous, Tw, dq, dosolid, solidVars, anchorVars, callVars>>

-----------------------------------------------------------------------------
(* PorousFlow::solid, the solid subsolver, run inside PorousFlow::eval when  *)
(* the container's trigger is raised.  The call is followed loop test by     *)
(* loop test.  The linear solve is computed exactly.  The two-flux sweeps    *)
(* are not: sigma T^4 and the fixed point of the sweeps are outside exact    *)
(* arithmetic, so the change norm of each two-flux pass and the net flux the *)
(* sweeps end in are what the radiation response env.rad says, but for the   *)
(* cases the arithmetic decides (a non-finite solid temperature makes them   *)
(* NaN).                                                                     *)

\* the cap of the two-flux loop, if (count > 100)
InnerCap == 100

\* the cap of the outer loop, if (count1 > 400)
OuterCap == 400

\* The loop tests change > 0.000001, on the square of the norm: true of +inf
\* and of every positive number, false of 0 and of NaN.  (No positive number
\* of the model's range is as small as 1e-12.)
Exceeds(sq) == sq[1] > 0

IsNaN(a) == a = <<0, 0>>

IsInf(a) == a[2] = 0 /\ a[1] # 0

\* the sum over all points of (a[i] - b[i])^2
SquaredDistance(a, b) ==
    FSum([i \in DOMAIN a |-> FMul(FSub(a[i], b[i]), FSub(a[i], b[i]))],
         0, Cardinality(DOMAIN a) - 1)

\* The three diagonals and the right-hand side of the solid energy system:
\* zero-gradient rows at both ends, conduction, convection to the gas and
\* the transient term at the interior points.
solidRows(c, rdt) ==
    LET n   == c.points
        cap == R(c.porous.srho * c.porous.sCp * rdt)
        lo(i) == RDiv(RMul(R(2), c.scond[i]),
                      R((c.z[i] - c.z[i-1]) * (c.z[i+1] - c.z[i-1])))
        hi(i) == RDiv(RMul(R(2), c.scond[i]),
                      R((c.z[i+1] - c.z[i]) * (c.z[i+1] - c.z[i-1])))
    IN  [e   |-> [i \in 0..(n-1) |-> IF i = 0 THEN RZero
                                      ELSE IF i = n - 1 THEN R(-1) ELSE lo(i)],
         f   |-> [i \in 0..(n-1) |->
                    IF i = 0 \/ i = n - 1 THEN R(1)
                    ELSE RSub(RSub(RSub(RNeg(hi(i)), lo(i)), R(c.hconv[i])), cap)],
         g   |-> [i \in 0..(n-1) |-> IF i = 0 THEN R(-1)
                                      ELSE IF i = n - 1 THEN RZero ELSE hi(i)],
         rhs |-> [i \in 0..(n-1) |->
                    IF i = 0 \/ i = n - 1 THEN RZero
                    ELSE RSub(RAdd(RNeg(RMul(R(c.hconv[i]), T(c, i))), c.dq[i]),
                              RMul(cap, c.Twprev[i]))]]

\* Decomposition of the rows m, in the arithmetic of doubles: edia and fdia
\* up to row i
RECURSIVE decompose(_, _)
decompose(m, i) ==
    IF i = 0 THEN [edia |-> (0 :> fl(m.e[0])), fdia |-> (0 :> fl(m.f[0]))]
    ELSE Only({Only({[edia |-> d.edia @@ (i :> e),
                      fdia |-> d.fdia @@ (i :> FSub(fl(m.f[i]), FMul(e, fl(m.g[i-1]))))] :
                     e \in {FDiv(fl(m.e[i]), d.fdia[i-1])}}) :
               d \in {decompose(m, i - 1)}})

\* Forward substitution: rhs up to row i
RECURSIVE forwardSubstitution(_, _, _)
forwardSubstitution(m, d, i) ==
    IF i = 0 THEN (0 :> fl(m.rhs[0]))
    ELSE Only({r @@ (i :> FSub(fl(m.rhs[i]), FMul(d.edia[i], r[i-1]))) :
               r \in {forwardSubstitution(m, d, i - 1)}})

\* Back substitution: Tw from row n-1 down to row i
RECURSIVE backSubstitution(_, _, _, _, _)
backSubstitution(m, d, r, i, n) ==
    IF i = n - 1 THEN (i :> FDiv(r[i], d.fdia[i]))
    ELSE Only({(i :> FDiv(FSub(r[i], FMul(fl(m.g[i]), tw[i+1])), d.fdia[i])) @@ tw :
               tw \in {backSubstitution(m, d, r, i + 1, n)}})

\* Decomposition, forward substitution and back substitution on the rows m
\* of n points: the solid temperature the pass leaves.
solveTridiagonal(m, n) ==
    Only({Only({backSubstitution(m, d, r, 0, n) :
                r \in {forwardSubstitution(m, d, n - 1)}}) :
          d \in {decompose(m, n - 1)}})

\* a < b on doubles: false when either is NaN
RLess(a, b) ==
    IF IsNaN(a) \/ IsNaN(b) \/ a = b THEN FALSE
    ELSE IF a = <<1, 0>> \/ b = <<-1, 0>> THEN FALSE
    ELSE IF a = <<-1, 0>> \/ b = <<1, 0>> THEN TRUE
    ELSE a[1] * b[2] < b[1] * a[2]

\* std::max(a, b) == (a < b) ? b : a
RMax(a, b) == IF RLess(a, b) THEN b ELSE a

\* sigma*pow(temp,4) with sigma = 5.67e-8.  sigma lies below and the power
\* beyond the range of these numbers, so the product is formed as
\* 5.67 * ((temp*temp)/10^4)^2.
sigmaT4(temp) ==
    LET t1 == fl(temp)
        u2 == FMul(RMul(t1, t1), <<1, 10000>>)
    IN  FMul(FMul(u2, u2), <<567, 100>>)

\* RK[i] and Omega[i] as PorousFlow::eval hands them to solid
RK(c, i) == fl(RDiv(RMul(R(3), RSub(R(1), c.pore[i])), c.diam[i]))

Omega(c, i) == IF c.z[i] < c.porous.zmid THEN c.porous.Omega1 ELSE c.porous.Omega2

Scattering(c) == \E i \in 0..(c.points - 1) : Omega(c, i) # RZero

\* sigma*pow(temp,4) of the solid temperature at every point
emission(c) == [i \in 0..(c.points - 1) |-> sigmaT4(c.Tw[i])]

\* the two-flux loop populated with the emission of the solid at its two
\* ends
twoFluxInit_SolidEmission(c) ==
    [qp |-> [i \in 0..(c.points - 1) |->
                IF i = 0 THEN sigmaT4(c.Tw[i]) ELSE RZero],
     qm |-> [i \in 0..(c.points - 1) |->
                IF i = 0 THEN RZero
                ELSE IF i = c.points - 1 THEN sigmaT4(c.Tw[i]) ELSE RZero]]

\* qplus/qpnew and qminus/qmnew as populated before the two-flux loop: the
\* emission of the gas temperature at the first point enters at both ends
twoFluxInit(c) ==
    [qp |-> [i \in 0..(c.points - 1) |->
                IF i = 0 THEN sigmaT4(T(c, 0)) ELSE RZero],
     qm |-> [i \in 0..(c.points - 1) |->
                IF i = 0 THEN RZero
                ELSE IF i = c.points - 1 THEN sigmaT4(T(c, 0)) ELSE RZero]]

\* One term of a sweep: (from + RK*dz*Omega*other + 2*RK*dz*(1-Omega)*
\* sigma*temp^4) / (1 + dz*RK*(2-Omega)), rounded as it is stored; em[i] is
\* sigma*temp^4 at point i
twoFluxStep(c, em, i, dz, from, other) ==
    Only({fl(RDiv(RAdd(RAdd(from, RMul(RMul(k, Omega(c, i)), other)),
                       RMul(RMul(RMul(R(2), k), RSub(R(1), Omega(c, i))), em[i])),
                  RAdd(R(1), RMul(k, RSub(R(2), Omega(c, i)))))) :
          k \in {RMul(RK(c, i), R(dz))}})

\* qpnew[i] of the forward sweep over the old fluxes q
RECURSIVE forwardSweep(_, _, _, _)
forwardSweep(c, em, q, i) ==
    IF i = 0 THEN q.qp[0]
    ELSE twoFluxStep(c, em, i, c.z[i] - c.z[i-1], forwardSweep(c, em, q, i - 1), q.qm[i])

\* qmnew[i] of the backward sweep over the new qpnew
RECURSIVE backwardSweep(_, _, _, _, _)
backwardSweep(c, em, q, qpnew, i) ==
    IF i = c.points - 1 THEN q.qm[i]
    ELSE twoFluxStep(c, em, i, c.z[i+1] - c.z[i], backwardSweep(c, em, q, qpnew, i + 1), qpnew[i])

\* One pass of the two-flux loop from the fluxes q: the forward sweep of
\* qpnew with the old qminus, then the backward sweep of qmnew with the new
\* qpnew; the end values stay as populated.
twoFluxSweep(c, em, q) ==
    Only({[qp |-> qpnew, qm |-> [i \in 0..(c.points - 1) |-> backwardSweep(c, em, q, qpnew, i)]] :
          qpnew \in {[i \in 0..(c.points - 1) |-> forwardSweep(c, em, q, i)]}})

\* qplus and qminus after cnt passes
RECURSIVE twoFluxAfter(_, _, _)
twoFluxAfter(c, em, cnt) ==
    IF cnt = 0 THEN twoFluxInit(c)
    ELSE Only({twoFluxSweep(c, em, q) : q \in {twoFluxAfter(c, em, cnt - 1)}})

\* The square of max(norm1, norm2) after two-flux pass cnt of outer pass cnt1
\* on the solid temperature c.Tw.  Without scattering a pass does not read
\* the fluxes of the pass before and the norms are those of the sweeps.
\* With scattering the number of passes the sweeps take to settle is the
\* caller's: a NaN temperature right of the first point makes qpnew,
\* and with it norm1 and the maximum, NaN; an infinite one makes norm1
\* infinite in the first pass and NaN (inf - inf) from the second.  On a
\* finite field the sweeps converge at pass env.rad.innerStop, to a NaN norm
\* when env.rad.innerNan; they never do when innerStop is 0, nor from outer
\* pass env.rad.stallFrom on when that is not 0.
twoFluxChange(c, cnt1, cnt) ==
    LET right == {c.Tw[i] : i \in 1..(c.points - 1)}
    IN  IF ~Scattering(c)
        THEN Only({Only({Only({RMax(SquaredDistance(new.qp, old.qp),
                                    SquaredDistance(new.qm, old.qm)) :
                               new \in {twoFluxSweep(c, em, old)}}) :
                         old \in {twoFluxAfter(c, em, cnt - 1)}}) :
                   em \in {emission(c)}})
        ELSE IF \E t \in right : IsNaN(t) THEN <<0, 0>>
        ELSE IF \E t \in right : IsInf(t) THEN (IF cnt = 1 THEN <<1, 0>> ELSE <<0, 0>>)
        ELSE IF c.env.rad.stallFrom # 0 /\ cnt1 >= c.env.rad.stallFrom THEN R(1)
        ELSE IF c.env.rad.innerStop # 0 /\ cnt >= c.env.rad.innerStop
             THEN (IF c.env.rad.innerNan THEN <<0, 0>> ELSE RZero)
        ELSE R(1)

\* dqnew[i] = 4*RK[i]*(1-Omega[i])*(sigma*temp^4 - 0.5*qplus[i] - 0.5*qminus[i])
netFlux(c, em, i, q) ==
    fl(RMul(RMul(RMul(R(4), RK(c, i)), RSub(R(1), Omega(c, i))),
            RSub(RSub(em[i], RMul(<<1, 2>>, q.qp[i])), RMul(<<1, 2>>, q.qm[i]))))

\* dqnew of a pass whose two-flux loop did not stall, after cnt passes of
\* that loop.  Without scattering it is the net flux of the sweeps.  With
\* scattering it is NaN at every point
\* when the loop ended on a NaN norm; else the flux the sweeps end in, which
\* from outer pass env.rad.outerStop on (never, when that is 0) is the flux
\* already stored and before that lies 10 above it.
radiativeSource(c, ch2, cnt1, cnt) ==
    IF ~Scattering(c)
    THEN Only({Only({[i \in 0..(c.points - 1) |-> netFlux(c, em, i, q)] :
                     q \in {twoFluxAfter(c, em, cnt)}}) :
               em \in {emission(c)}})
    ELSE [i \in 0..(c.points - 1) |->
            IF IsNaN(ch2) THEN <<0, 0>>
            ELSE IF c.env.rad.outerStop # 0 /\ cnt1 >= c.env.rad.outerStop THEN c.dq[i]
            ELSE FAdd(c.dq[i], R(10))]

\* dq[i] = a*dqnew[i] + (1-a)*dq[i] with double a = 0.1, every operation
\* rounded
relax(new, old) ==
    LET a == fl(<<1, 10>>)
    IN  [i \in DOMAIN old |-> FAdd(FMul(a, new[i]), FMul(FSub(R(1), a), old[i]))]

\* Mutant of InnerCapped: the two-flux loop has no working cap.
InnerCapped_Never(cnt) == FALSE

\* the test if (count > 100) at the end of a two-flux pass
InnerCapped(cnt) == cnt > InnerCap

\* Mutant of OuterCapped: every outer pass counts as past the cap.
OuterCapped_Always(cnt1) == TRUE

\* the test if (count1 > 400) at the end of an outer pass
OuterCapped(cnt1) == cnt1 > OuterCap

\* Mutant of solidResult: the field of the last linear solve is kept even
\* when the outer loop ran past its cap.
solidResult_NoRevert(f1, tw, prev) == tw

\* the solid temperature the call leaves: if (fail1 == 1) Tw[i] = Twprev[i]
solidResult(f1, tw, prev) == IF f1 = 1 THEN prev ELSE tw

\* PorousFlow::eval is called with the trigger raised: the call runs up to
\* the residual loop and, unless it returned at once or threw, enters solid:
\* Twprev = Tw, dq zeroed, change1 = 1, count1 = 0, fail1 = 0.
EvalEnterSolid ==
    /\ evalCall.status = "none"
    /\ m_points >= 2
    /\ variant = "porous"
    /\ dosolid = 1
    /\ \E jg \in EvalPoints : \E rdt0 \in 0..1 :
         \E p \in {evalPrefix(Ctx, jg, rdt0)} :
             /\ StoreEval(p.c)
             /\ evalCall' = [jg |-> jg, rdt |-> p.rdt,
                             status |-> IF p.status = "ok" THEN "solid" ELSE p.status,
                             jmin |-> p.jmin, jmax |-> p.jmax, j0 |-> p.j0, j1 |-> p.j1]
             /\ IF p.status = "ok"
                THEN /\ solidPc' = "outer"
                     /\ Twprev' = Tw
                     /\ dq' = [i \in DOMAIN dq |-> IF i < m_points THEN RZero ELSE dq[i]]
                     /\ change1' = R(1)
                     /\ count1' = 0
                     /\ fail1' = 0
                     /\ solidEntry' = [Tw |-> Tw, dq |-> dq]
                ELSE UNCHANGED <<solidPc, Twprev, dq, change1, count1, fail1, solidEntry>>
    /\ UNCHANGED <<m_points, m_z, m_dz, m_do_energy, m_fixedtemp, gridCall>>
    /\ UNCHANGED <<variant, firstPt, m_transport_option, m_do_soret, m_do_radiation>>
    /\ UNCHANGED <<solutionVars, porous, Tw, dosolid, rsd, diag, anchorVars, callVars>>
    /\ UNCHANGED <<count, fail, change2, dqnew>>

\* while (change1 > 0.000001), entered: count1 = count1 + 1, the linear solve,
\* the set-up of the two-flux loop (change2 = 1, count = 0, fail = 0).
SolidOuterPass ==
    /\ solidPc = "outer"
    /\ Exceeds(change1)
    /\ count1' = count1 + 1
    /\ \E m \in {solidRows(Ctx, evalCall.rdt)} : Tw' = solveTridiagonal(m, m_points)
    /\ change2' = R(1)
    /\ count' = 0
    /\ fail' = 0
    /\ solidPc' = "inner"
    /\ UNCHANGED <<gridVars, configVars, solutionVars, cacheVars, bufferVars, anchorVars, callVars>>
    /\ UNCHANGED <<porous, pore, diam, scond, hconv, dq, dosolid>>
    /\ UNCHANGED <<Twprev, fail1, change1, dqnew, solidEntry>>

\* while (change2 > 0.000001), entered: count = count + 1, the two sweeps and
\* their norms, then the cap test.
SolidInnerPass ==
    /\ solidPc = "inner"
    /\ Exceeds(change2)
    /\ count' = count + 1
    /\ IF InnerCapped(count + 1)
       THEN change2' = RZero /\ fail' = 1
       ELSE (\E c \in {Ctx} : change2' = twoFluxChange(c, count1, count + 1)) /\ fail' = fail
    /\ UNCHANGED <<gridVars, configVars, solutionVars, cacheVars, bufferVars, anchorVars, callVars>>
    /\ UNCHANGED <<porousVars>>
    /\ UNCHANGED <<solidPc, Twprev, count1, fail1, change1, dqnew, solidEntry>>

\* The two-flux loop is left: dqnew (the stored flux after a stall), the
\* norm of dqnew - dq, the relaxation of dq, then the cap test of the outer
\* loop.
SolidRelax ==
    /\ solidPc = "inner"
    /\ ~Exceeds(change2)
    /\ \E c \in {Ctx} :
       \E new \in {IF fail = 1 THEN [i \in 0..(m_points - 1) |-> dq[i]]
                   ELSE radiativeSource(c, change2, count1, count)} :
         /\ dqnew' = new
         /\ dq' = [i \in DOMAIN dq |-> IF i < m_points THEN relax(new, dq)[i] ELSE dq[i]]
         /\ IF OuterCapped(count1)
            THEN fail1' = 1 /\ change1' = RZero
            ELSE fail1' = fail1 /\
                 change1' = SquaredDistance(new, [i \in 0..(m_points - 1) |-> dq[i]])
    /\ solidPc' = "outer"
    /\ UNCHANGED <<gridVars, configVars, solutionVars, cacheVars, bufferVars, anchorVars, callVars>>
    /\ UNCHANGED <<porous, pore, diam, scond, hconv, Tw, dosolid>>
    /\ UNCHANGED <<Twprev, count1, count, fail, change2, solidEntry>>

\* Mutant of loweredTrigger: eval leaves the trigger as it found it.
loweredTrigger_Kept(flag) == flag

\* (*m_container).dosolid = 0: the trigger after eval has run the subsolver
loweredTrigger(flag) == 0

\* The outer loop is left: the solid temperature is put back to Twprev when
\* the loop ran past its cap, solid returns, eval lowers the trigger and
\* forms the residual rows.
SolidReturn ==
    /\ solidPc = "outer"
    /\ ~Exceeds(change1)
    /\ \E tw \in {solidResult(fail1, Tw, Twprev)} :
         \E r \in {evalRows([evalCall EXCEPT !.status = "ok"],
                            [Ctx EXCEPT !.Tw = tw], rsd, diag)} :
             /\ Tw' = tw
             /\ StoreEval(r.c)
             /\ rsd' = r.rsd
             /\ diag' = r.diag
             /\ evalCall' = [evalCall EXCEPT !.status = r.status]
    /\ dosolid' = loweredTrigger(dosolid)
    /\ solidPc' = "returned"
    /\ UNCHANGED <<m_points, m_z, m_dz, m_do_energy, m_fixedtemp, gridCall>>
    /\ UNCHANGED <<variant, firstPt, m_transport_option, m_do_soret, m_do_radiation>>
    /\ UNCHANGED <<solutionVars, porous, dq, anchorVars, callVars>>
    /\ UNCHANGED <<Twprev, count1, fail1, change1, count, fail, change2, dqnew,
                   solidEntry>>

-----------------------------------------------------------------------------
(* The constructed and configured engine *)

InitGridMembers(g) ==
    /\ m_points = g.points
    /\ m_z = g.z
    /\ m_dz = g.dz
    /\ m_rho = g.rho
    /\ m_wtm = g.wtm
    /\ m_cp = g.cp
    /\ m_visc = g.visc
    /\ m_tcon = g.tcon
    /\ m_do_energy = g.do_energy
    /\ m_qdotRadiation = g.qdot
    /\ m_fixedtemp = g.fixedtemp

StrictlyIncreasing(zz) ==
    \A j \in DOMAIN zz : (j - 1) \in DOMAIN zz => zz[j-1] < zz[j]

\* a mass-fraction vector: species k pure, an even mix of the first two
\* species, and two vectors that do not sum to 1
PureY(k0) == [k \in Species |-> IF k = k0 THEN R(1) ELSE RZero]
EvenY == [k \in Species |-> IF k <= 1 THEN <<1, 2>> ELSE RZero]
HalfY == [k \in Species |-> IF k = 0 THEN <<1, 2>> ELSE RZero]
OnesY == [k \in Species |-> R(1)]

\* the mean molecular weight the thermo provider reports for the mass
\* fractions of point j, taken without normalisation: 1 / sum_k (Y_k / W_k)
MeanWeight(sol, j) ==
    RDiv(R(1), RSum([k \in Species |-> RDiv(sol.Y[k][j], R(m_wt(k)))], 0, NSp - 1))

\* a solution on n points: unit axial velocity, no radial velocity, unit
\* temperature, zero lambda, species 0 pure
DefaultSol(n) ==
    [u |-> [j \in 0..(n-1) |-> 1], V |-> Zeros(n), T |-> [j \in 0..(n-1) |-> 1],
     L |-> Zeros(n), Y |-> [k \in Species |-> [j \in 0..(n-1) |-> PureY(0)[k]]]]

\* what the providers report for the solution sol on n points
DefaultEnv(n, sol) ==
    [rho |-> [j \in 0..(n-1) |-> j + 1],
     wtm |-> [j \in 0..(n-1) |-> MeanWeight(sol, j)],
     cp |-> [j \in 0..(n-1) |-> 1],
     visc |-> [j \in 0..(n-1) |-> 1],
     tcon |-> [j \in 0..(n-1) |-> 1],
     mixdiff |-> [k \in Species |-> [j \in 0..(n-1) |-> k + 1]],
     multidiff |-> [k \in Species |-> [m \in Species |-> [j \in 0..(n-1) |-> 1]]],
     rho_mid |-> [j \in 0..(n-1) |-> 1],
     wtm_mid |-> [j \in 0..(n-1) |-> 3],
     dthermal |-> [k \in Species |-> [j \in 0..(n-1) |-> 1]],
     wdot |-> [k \in Species |-> [j \in 0..(n-1) |-> IF k = 0 THEN -1 ELSE 0]],
     h_RT |-> [k \in Species |-> [j \in 0..(n-1) |-> 1]],
     cp_R |-> [k \in Species |-> [j \in 0..(n-1) |-> 1]],
     qrad |-> [j \in 0..(n-1) |-> 1],
     hconv |-> [j \in 0..(n-1) |-> 1],
     rad |-> [innerStop |-> 2, innerNan |-> FALSE, outerStop |-> 2, stallFrom |-> 0]]

\* The settings of an engine on the uniform unit grid of n points: a confined
\* stagnation flow behind a one-point inlet, mixture-averaged transport, the
\* energy equation off everywhere.
DefaultEngine(n) ==
    [n |-> n, zz |-> [j \in 0..(n-1) |-> j], variant |-> "axi", firstPt |-> 1,
     option |-> "mixav", soret |-> FALSE, radiation |-> FALSE,
     sol |-> DefaultSol(n), prev |-> DefaultSol(n),
     env |-> DefaultEnv(n, DefaultSol(n)),
     do_energy |-> [j \in 0..(n-1) |-> FALSE],
     fixedtemp |-> [j \in 0..(n-1) |-> 1],
     porous |-> [pore1 |-> <<1, 2>>, pore2 |-> R(1),
                 diam1 |-> <<2, 875>>, diam2 |-> <<4, 875>>,
                 zmid |-> 1, dzmid |-> 1, srho |-> 1, sCp |-> 1,
                 Omega1 |-> <<1, 2>>, Omega2 |-> <<1, 2>>,
                 scond1 |-> <<1, 10>>, scond2 |-> <<1, 5>>],
     Tw |-> [j \in 0..(n-1) |-> R(1)], dq |-> [j \in 0..(n-1) |-> RZero],
     dosolid |-> 0,
     zfixed |-> Undef, tfixed |-> Undef, zfix |-> [nz |-> 0, tt |-> Zeros(n)],
     diag |-> [comp \in Components |-> [j \in 0..(n-1) |-> -1]]]

\* no setTransport, enableSoret or restore call yet
NoCall == [op |-> "none", arg |-> <<>>, status |-> "none"]

\* The engine after construction with p.n points (StFlow::StFlow, the
\* variant's constructor) and after the caller's set-up calls: setupGrid with
\* the strictly increasing grid p.zz, setTransport, the energy flags, the
\* fixed temperature profile, the porous parameters; with the caller's
\* solution, previous solution and buffers.
Configured(p) ==
    /\ InitGridMembers([setupGrid(ConstructedGrid(p.n), p.n, p.zz).g EXCEPT
                          !.do_energy = p.do_energy, !.fixedtemp = p.fixedtemp])
    /\ gridCall = [n |-> 0, increasing |-> TRUE, z |-> Zeros(0), err |-> "none"]
    /\ variant = p.variant
    /\ firstPt = p.firstPt
    /\ m_transport_option = p.option
    /\ m_do_soret = p.soret
    /\ m_do_radiation = p.radiation
    /\ m_dovisc = (p.variant # "free")
    /\ x = p.sol
    /\ x_prev = p.prev
    /\ env = p.env
    /\ m_diff = [k \in Species |-> [j \in 0..(p.n - 1) |-> RZero]]
    /\ m_multidiff = [k \in Species |-> [m \in Species |-> Zeros(p.n)]]
    /\ m_dthermal = [k \in Species |-> Zeros(p.n)]
    /\ m_flux = [k \in Species |-> [j \in 0..(p.n - 1) |-> RZero]]
    /\ m_wdot = [k \in Species |-> Zeros(p.n)]
    /\ rsd = [n \in Components |-> [j \in 0..(p.n - 1) |-> R(-7)]]
    /\ diag = p.diag
    /\ evalCall = NoEvalCall
    /\ porous = p.porous
    /\ pore = Zeros(0)
    /\ diam = Zeros(0)
    /\ scond = Zeros(0)
    /\ hconv = Zeros(0)
    /\ Tw = p.Tw
    /\ dq = p.dq
    /\ dosolid = p.dosolid
    /\ solidPc = "idle"
    /\ Twprev = Zeros(0)
    /\ count1 = 0
    /\ fail1 = 0
    /\ change1 = R(1)
    /\ count = 0
    /\ fail = 0
    /\ change2 = R(1)
    /\ dqnew = Zeros(0)
    /\ solidEntry = [Tw |-> Zeros(0), dq |-> Zeros(0)]
    /\ m_zfixed = p.zfixed
    /\ m_tfixed = p.tfixed
    /\ m_zfix = p.zfix
    /\ finLog = << <<p.zfixed, p.tfixed>> >>
    /\ m_trans = p.option
    /\ m_do_species = [k \in Species |-> TRUE]
    /\ lastCall = NoCall
    /\ selectedOk = (p.option # "none")
    /\ evalLog = << [kind |-> "init", ran |-> FALSE, status |-> "none",
                    flag |-> p.dosolid] >>
    /\ m_phaseExists = << >>
    /\ m_phaseIsStable = << >>
    /\ m_phaseExistsCheck = 0
    /\ kinCall = [op |-> "none", status |-> "none", checked |-> FALSE,
                  ropf |-> 0, ropr |-> 0, ropnet |-> 0]

-----------------------------------------------------------------------------
(* Grid set-up: the behaviours of setupGrid on a constructed engine *)

\* the engine as constructed with the default number of points, one
InitGrid == Configured(DefaultEngine(1))

\* StFlow::resize, the transport and flux caches: the diffusion coefficients,
\* the fluxes and the production rates are resized with the grid; the
\* multicomponent caches only when the model is not mixture-averaged.
resizeCaches(n) ==
    /\ m_diff' = [k \in Species |-> VecResize(m_diff[k], n, RZero)]
    /\ m_multidiff' = IF m_transport_option = "mixav" THEN m_multidiff
                      ELSE [k \in Species |-> [m \in Species |->
                              VecResize(m_multidiff[k][m], n, 0)]]
    /\ m_dthermal' = IF m_transport_option = "mixav" THEN m_dthermal
                     ELSE [k \in Species |-> VecResize(m_dthermal[k], n, 0)]
    /\ m_flux' = [k \in Species |-> VecResize(m_flux[k], n, RZero)]
    /\ m_wdot' = [k \in Species |-> VecResize(m_wdot[k], n, 0)]

\* A caller hands a grid of n >= 1 points to setupGrid.  The call mutates the
\* engine whether or not it throws.
SetupGrid ==
    \E n \in 1..MaxPoints :
      \E zz \in [0..(n-1) -> 0..MaxCoord] :
        \E r \in {setupGrid(GridState, n, zz)} :
            /\ StoreGrid(r.g)
            /\ resizeCaches(n)
            /\ gridCall' = [n |-> n, increasing |-> StrictlyIncreasing(zz),
                            z |-> IF StrictlyIncreasing(zz) THEN zz ELSE Zeros(0),
                            err |-> r.err]
            /\ UNCHANGED <<configVars, solutionVars, bufferVars, porousVars, solidVars,
                           anchorVars, callVars>>

NextGrid == SetupGrid

SpecGrid == InitGrid /\ [][NextGrid]_vars

-----------------------------------------------------------------------------
(* _finalize: the fixed temperature profile and the flame anchor *)

\* StFlow::_finalize(x): the fixed temperature of every point becomes the
\* solution's temperature when the energy equation is on at point 0 or no
\* profile was given, the interpolated profile otherwise; then the energy
\* equation is switched on everywhere when it was on at point 0.
baseFinalize(c, zfix) ==
    LET e == c.do_energy[0]
    IN  [c EXCEPT
           !.fixedtemp = [j \in DOMAIN c.fixedtemp |->
                            IF e \/ zfix.nz = 0 THEN c.sol.T[j] ELSE zfix.tt[j]],
           !.do_energy = [j \in DOMAIN c.do_energy |-> IF e THEN TRUE ELSE c.do_energy[j]]]

\* the test of the relocation loop: the profile reaches tf on interval j
ReachesOn(c, j, tf) == (c.sol.T[j] - tf) * (c.sol.T[j+1] - tf) <= 0

\* Mutant of relocate: the anchor moves to the left end of the interval.
relocate_LeftEnd(c, j) == [c EXCEPT !.tfixed = c.sol.T[j], !.zfixed = c.z[j]]

\* the body of the relocation loop at the interval j it stops at
relocate(c, j) == [c EXCEPT !.tfixed = c.sol.T[j+1], !.zfixed = c.z[j+1]]

\* Mutant of finalizeAnchor: the search for a grid point at the anchor
\* coordinate is left out.
finalizeAnchor_NoGridPointTest(c) ==
    LET hits == {j \in 0..(c.points - 2) : ReachesOn(c, j, c.tfixed)}
    IN  IF c.tfixed = Undef THEN c
        ELSE IF hits = {} THEN c
        ELSE relocate(c, CHOOSE j \in hits : \A i \in hits : j <= i)

\* FreeFlame::_finalize(x) after the base call: nothing when the anchor
\* temperature is undefined or a grid point lies at the anchor coordinate;
\* otherwise the anchor moves to the right end of the first interval on which
\* the profile reaches the anchor temperature, if there is one.
finalizeAnchor(c) ==
    LET hits == {j \in 0..(c.points - 2) : ReachesOn(c, j, c.tfixed)}
    IN  IF c.tfixed = Undef THEN c
        ELSE IF \E j \in 0..(c.points - 1) : c.z[j] = c.zfixed THEN c
        ELSE IF hits = {} THEN c
        ELSE relocate(c, CHOOSE j \in hits : \A i \in hits : j <= i)

\* _finalize calls per behaviour
MaxFinalize == 2

\* The container calls _finalize(x) after a solve.
Finalize ==
    /\ Len(finLog) <= MaxFinalize
    /\ \E r \in {IF variant = "free" THEN finalizeAnchor(baseFinalize(Ctx, m_zfix))
                 ELSE baseFinalize(Ctx, m_zfix)} :
         /\ m_fixedtemp' = r.fixedtemp
         /\ m_do_energy' = r.do_energy
         /\ m_zfixed' = r.zfixed
         /\ m_tfixed' = r.tfixed
         /\ finLog' = Append(finLog, <<r.zfixed, r.tfixed>>)
    /\ UNCHANGED <<m_points, m_z, m_dz, m_rho, m_wtm, m_cp, m_visc, m_tcon,
                   m_qdotRadiation, gridCall, m_zfix>>
    /\ UNCHANGED <<configVars, solutionVars, cacheVars, bufferVars, porousVars,
                   solidVars, callVars>>

\* free flames on every grid of 2..MaxPoints points with coordinates in
\* 0..MaxCoord, with every anchor and every temperature profile over 0..2
InitAnchor ==
    \E n \in 2..MaxPoints :
      \E zz \in {g \in [0..(n-1) -> 0..MaxCoord] : StrictlyIncreasing(g)},
         Tp \in [0..(n-1) -> 0..2],
         zf \in {Undef} \cup 0..MaxCoord,
         tf \in {Undef, 1},
         ez \in {<<FALSE, 0>>, <<TRUE, 0>>, <<FALSE, 2>>} :
        Configured([DefaultEngine(n) EXCEPT
                      !.variant = "free", !.zz = zz,
                      !.sol = [DefaultSol(n) EXCEPT !.T = Tp],
                      !.zfixed = zf, !.tfixed = tf,
                      !.do_energy = [j \in 0..(n-1) |-> ez[1]],
                      !.zfix = [nz |-> ez[2], tt |-> [j \in 0..(n-1) |-> 2]]])

NextAnchor == Finalize

SpecAnchor == InitAnchor /\ [][NextAnchor]_vars

\* the anchor before and after the last _finalize call
AnchorBefore == finLog[Len(finLog) - 1]
AnchorAfter == finLog[Len(finLog)]

\* the profile crosses tf strictly inside interval j
CrossesInside(j, tf) ==
    \/ x.T[j] < tf /\ tf < x.T[j+1]
    \/ x.T[j] > tf /\ tf > x.T[j+1]

\* the profile stays strictly on one side of tf over interval j
StaysOff(j, tf) ==
    \/ x.T[j] < tf /\ x.T[j+1] < tf
    \/ x.T[j] > tf /\ x.T[j+1] > tf

\* the case of C7 at interval j: a defined anchor temperature, no grid point at
\* the anchor coordinate, one crossing, inside interval j
C7_Case(j) ==
    /\ Len(finLog) >= 2
    /\ AnchorBefore[2] # Undef
    /\ \A i \in 0..(m_points - 1) : m_z[i] # AnchorBefore[1]
    /\ CrossesInside(j, AnchorBefore[2])
    /\ \A i \in 0..(m_points - 2) : i # j => StaysOff(i, AnchorBefore[2])

\* C7: FreeFlame::_finalize, called with a defined anchor temperature, no
\* grid point at the anchor coordinate and a temperature profile that crosses
\* the anchor temperature exactly once, between the adjacent points j and j+1,
\* sets the anchor coordinate to z(j+1) and the anchor temperature to T(j+1).
C7_AnchorRelocated ==
    \A j \in 0..(m_points - 2) :
      C7_Case(j) => AnchorAfter = <<m_z[j+1], x.T[j+1]>>

\* Witness of C7: the crossing is inside the second interval and the call
\* moved both the coordinate and the temperature of the anchor.
C7_Witness ==
    /\ m_points >= 3
    /\ C7_Case(1)
    /\ AnchorAfter[1] # AnchorBefore[1]
    /\ AnchorAfter[2] # AnchorBefore[2]

\* the cases of C8: a grid point at the anchor coordinate, an undefined anchor
\* temperature, or a profile that stays off the anchor temperature everywhere
C8_Case ==
    /\ Len(finLog) >= 2
    /\ \/ \E i \in 0..(m_points - 1) : m_z[i] = AnchorBefore[1]
       \/ AnchorBefore[2] = Undef
       \/ \A i \in 0..(m_points - 2) : StaysOff(i, AnchorBefore[2])

\* C8: FreeFlame::_finalize leaves the anchor coordinate and the anchor
\* temperature unchanged when some grid point lies at the anchor coordinate,
\* when the anchor temperature is undefined and when the profile nowhere
\* crosses the anchor temperature; and a second call in a row on the same
\* solution leaves the anchor where the first call put it.
C8_AnchorUnchanged ==
    /\ C8_Case => AnchorAfter = AnchorBefore
    /\ Len(finLog) >= 3 => finLog[3] = finLog[2]

\* Witness of C8: a first call relocated the anchor and a second call on the
\* same solution, finding a grid point at the anchor, left it there, although
\* the profile reaches the new anchor temperature.
C8_Witness ==
    /\ Len(finLog) >= 3
    /\ finLog[2] # finLog[1]
    /\ C8_Case
    /\ \E i \in 0..(m_points - 2) : ~StaysOff(i, AnchorBefore[2])

-----------------------------------------------------------------------------
(* Claims about the grid state *)

PerPointArrays ==
    <<m_z, m_rho, m_wtm, m_cp, m_visc, m_tcon, m_do_energy, m_qdotRadiation,
      m_fixedtemp>>

\* C1: setupGrid(n, z) succeeds exactly when z[0..n-1] is strictly increasing
\* and fails with the invalid-grid error otherwise; after a successful call
\* every per-point array has length n, the spacing array has length n-1 and
\* dz[j] = z[j+1] - z[j] for every j.
C1_SetupGridContract ==
    gridCall.err # "none" =>
      /\ (gridCall.err = "ok") <=> gridCall.increasing
      /\ (gridCall.err = "InvalidGrid") <=> ~gridCall.increasing
      /\ gridCall.err = "ok" =>
           /\ m_points = gridCall.n
           /\ \A i \in 1..Len(PerPointArrays) :
                DOMAIN PerPointArrays[i] = 0..(gridCall.n - 1)
           /\ m_z = gridCall.z
           /\ DOMAIN m_dz = 0..(gridCall.n - 2)
           /\ \A j \in 0..(gridCall.n - 2) :
                m_dz[j] = gridCall.z[j+1] - gridCall.z[j]

\* Witness of C1: a successful call with at least three points, and so at
\* least two spacings.
C1_Witness ==
    /\ gridCall.err = "ok"
    /\ gridCall.n >= 3

\* C2: in every reachable state, failed calls included, the stored grid is
\* strictly increasing and the stored spacings are the positive differences
\* of adjacent stored coordinates.
C2_StoredGridMonotonic ==
    /\ StrictlyIncreasing(m_z)
    /\ DOMAIN m_dz = 0..(m_points - 2)
    /\ \A j \in DOMAIN m_dz : m_dz[j] = m_z[j+1] - m_z[j] /\ m_dz[j] > 0

-----------------------------------------------------------------------------
(* Residual assembly: the behaviours of one eval call on engines that differ *)
(* in variant, energy flags, temperature and fixed temperature profile       *)

Variants == {"axi", "free", "porous"}

\* temperatures of the solution, per point
TempValues == {0, 1}

\* energy flags: off everywhere, on everywhere, or off at point 1 only
FlagChoices(n) ==
    {[j \in 0..(n-1) |-> FALSE], [j \in 0..(n-1) |-> TRUE], [j \in 0..(n-1) |-> j # 1]}

\* fixed temperature profiles: all ones, or zero at the left end and one
\* elsewhere
FixedChoices(n) ==
    {[j \in 0..(n-1) |-> 1], [j \in 0..(n-1) |-> IF j = 0 THEN 0 ELSE 1]}

InitEnergy ==
    \E vr \in Variants, n \in 3..MaxPoints :
      \E flags \in FlagChoices(n), Tp \in [0..(n-1) -> TempValues] :
        \E fx \in FixedChoices(n) :
          Configured([DefaultEngine(n) EXCEPT
                        !.variant = vr, !.do_energy = flags, !.fixedtemp = fx,
                        !.sol = [DefaultSol(n) EXCEPT !.T = Tp]])

NextEval == Eval

SpecEnergy == InitEnergy /\ [][NextEval]_vars

\* the interior points an eval call has assembled
Assembled(j) ==
    /\ evalCall.status = "ok"
    /\ evalCall.jmin <= j /\ j <= evalCall.jmax
    /\ 0 < j /\ j < m_points - 1

\* C3: for every interior point j assembled by eval, in every variant: when
\* the energy flag of j is cleared the temperature row is T(j) minus the
\* fixed-profile temperature of j and its flag is 0 (algebraic); when the
\* energy flag of j is set the flag of the row is 1 (differential).  Only the
\* energy flag of j itself decides.
C3_EnergyRowByFlag ==
    \A j \in 0..(m_points - 1) :
      Assembled(j) =>
        /\ ~m_do_energy[j] =>
             /\ rsd[c_offset_T][j] = R(x.T[j] - m_fixedtemp[j])
             /\ diag[c_offset_T][j] = 0
        /\ m_do_energy[j] => diag[c_offset_T][j] = 1

\* Witness of C3: an assembled interior point whose energy flag is cleared
\* while the flag of the first point is set, with a temperature off the
\* fixed profile.
C3_Witness ==
    \E j \in 0..(m_points - 1) :
      /\ Assembled(j)
      /\ ~m_do_energy[j]
      /\ m_do_energy[0]
      /\ x.T[j] # m_fixedtemp[j]
      /\ variant = "porous"

\* a whole-grid eval of a confined stagnation flow with the energy equation
\* off at every point has returned
C4_Case ==
    /\ variant = "axi"
    /\ evalCall.status = "ok"
    /\ evalCall.jg = npos
    /\ \A j \in 0..(m_points - 1) : ~m_do_energy[j]

\* C4 as claimed: the temperature rows of the whole grid are all zero exactly
\* when T(j) equals the fixed-profile temperature at every point, the two
\* boundary points included.
C4_AllRowsZeroIffOnProfile ==
    C4_Case =>
      ((\A j \in 0..(m_points - 1) : rsd[c_offset_T][j] = RZero)
         <=> (\A j \in 0..(m_points - 1) : x.T[j] = m_fixedtemp[j]))

\* C4, amended: the temperature rows of the interior points are all zero
\* exactly when T(j) equals the fixed-profile temperature at every interior
\* point; the rows of the two boundary points are T(0) and T(last) whatever
\* the fixed profile is.
C4_InteriorRowsZeroIffOnProfile ==
    C4_Case =>
      /\ (\A j \in 1..(m_points - 2) : rsd[c_offset_T][j] = RZero)
           <=> (\A j \in 1..(m_points - 2) : x.T[j] = m_fixedtemp[j])
      /\ rsd[c_offset_T][0] = R(x.T[0])
      /\ rsd[c_offset_T][m_points - 1] = R(x.T[m_points - 1])

\* Witness of C4: the interior is on the fixed profile and its rows are zero,
\* the boundary temperatures are off the profile and not zero.
C4_Witness ==
    /\ C4_Case
    /\ \A j \in 1..(m_points - 2) : rsd[c_offset_T][j] = RZero
    /\ x.T[0] # m_fixedtemp[0]
    /\ x.T[0] # 0

-----------------------------------------------------------------------------
(* Species transport: the behaviours of one eval call on engines that differ *)
(* in variant, flow direction, production rates and mass fractions           *)

\* mass fractions of one point: species 0 pure, an even mix, or all ones
\* (not normalised, as the iterates of the solver can be)
YChoices == {PureY(0), EvenY, OnesY}

\* production rates of one point: species 0 consumed alone, or species 0
\* converted to species 1 with the mass conserved
WdotChoices ==
    {[k \in Species |-> IF k = 0 THEN -1 ELSE 0],
     [k \in Species |-> IF k = 0 THEN -2 ELSE IF k = 1 THEN 1 ELSE 0]}

\* the solution with the mass fractions Yp (point -> species -> value) and
\* the axial velocity u0 at every point
SpeciesSol(n, Yp, u0) ==
    [DefaultSol(n) EXCEPT !.u = [j \in 0..(n-1) |-> u0],
                          !.Y = [k \in Species |-> [j \in 0..(n-1) |-> Yp[j][k]]]]

InitSpecies ==
    \E vr \in {"axi", "porous"}, n \in 3..MaxPoints, u0 \in {-1, 1} :
      \E Yp \in [0..(n-1) -> YChoices], wd \in WdotChoices :
        Configured([DefaultEngine(n) EXCEPT
                      !.variant = vr,
                      !.sol = SpeciesSol(n, Yp, u0),
                      !.env = [DefaultEnv(n, SpeciesSol(n, Yp, u0)) EXCEPT
                                 !.wdot = [k \in Species |-> [j \in 0..(n-1) |-> wd[k]]]]])

SpecSpecies == InitSpecies /\ [][NextEval]_vars

\* the sum over the species of the flux of interval j
FluxSum(j) == RSum([k \in Species |-> m_flux[k][j]], 0, NSp - 1)

\* the sum over the species of the mass fractions at point j
YSum(j) == RSum([k \in Species |-> x.Y[k][j]], 0, NSp - 1)

\* C5: with the mixture-averaged model and Soret disabled, after
\* updateDiffFluxes(x, j0, j1) the fluxes of every interval j in [j0, j1) sum
\* to zero over the species, whatever the mole-fraction gradients across the
\* interval and the mass fractions at point j are.
C5_MixavFluxesSumToZero ==
    (evalCall.status = "ok" /\ m_transport_option = "mixav" /\ ~m_do_soret) =>
      \A j \in 0..(m_points - 1) :
        (evalCall.j0 <= j /\ j < evalCall.j1) => FluxSum(j) = RZero

\* an interior point j assembled with rdt = 0 whose neighbourhood has
\* normalised mass fractions and balanced fluxes
C6_Case(j) ==
    /\ Assembled(j)
    /\ evalCall.rdt = 0
    /\ \A i \in {j - 1, j, j + 1} : YSum(i) = R(1)
    /\ FluxSum(j - 1) = RZero
    /\ FluxSum(j) = RZero

\* C6: at an interior point j whose mass fractions at j-1, j and j+1 each sum
\* to 1 and whose fluxes of the intervals j-1 and j each sum to zero, the
\* steady species rows times the density of j sum over the species to the sum
\* of the production rates weighted by the molecular weights; that sum is zero
\* when the production rates conserve mass.
C6_SpeciesRowsSumToSource ==
    \A j \in 0..(m_points - 1) :
      C6_Case(j) =>
        LET rows == RSum([k \in Species |->
                            RMul(R(m_rho[j]), rsd[c_offset_Y + k][j])], 0, NSp - 1)
            src  == RSum([k \in Species |-> R(m_wt(k) * m_wdot[k][j])], 0, NSp - 1)
        IN  /\ rows = src
            /\ (src = RZero => rows = RZero)

\* Witness of C6: such a point where a species row has non-zero convection
\* and diffusion (the mass fractions differ from both neighbours and a flux is
\* not zero) and the production rates do not sum to zero.
C6_Witness ==
    \E j \in 0..(m_points - 1) :
      /\ C6_Case(j)
      /\ x.Y[0][j] # x.Y[0][j-1]
      /\ x.Y[0][j] # x.Y[0][j+1]
      /\ m_flux[0][j] # RZero
      /\ m_flux[0][j-1] # RZero
      /\ m_wt(0) * m_wdot[0][j] + m_wt(1) * m_wdot[1][j] # 0

-----------------------------------------------------------------------------
(* The solid subsolver: one eval call with the trigger raised *)

\* Radiation responses: the sweeps converge in two passes and the flux in
\* three; the sweeps stall in the first outer pass; the flux never settles,
\* with the sweeps converging at once, or stalling in the pass after the
\* outer cap or in pass 14; the sweeps end on a NaN norm.
RadChoices ==
    {[innerStop |-> 2, innerNan |-> FALSE, outerStop |-> 3, stallFrom |-> 0],
     [innerStop |-> 2, innerNan |-> FALSE, outerStop |-> 0, stallFrom |-> 1],
     [innerStop |-> 1, innerNan |-> FALSE, outerStop |-> 0, stallFrom |-> 0],
     [innerStop |-> 1, innerNan |-> FALSE, outerStop |-> 0, stallFrom |-> OuterCap + 1],
     [innerStop |-> 1, innerNan |-> FALSE, outerStop |-> 0, stallFrom |-> 14],
     [innerStop |-> 3, innerNan |-> TRUE, outerStop |-> 0, stallFrom |-> 0]}

\* gas temperatures of the non-scattering burner: the first entry is the
\* gas temperature at the first point, the second the one elsewhere
GasChoices == {<<100, 100>>, <<0, 100>>}

\* A non-scattering solid of extinction coefficient 3 in a gas of
\* temperature g[1] at the first point and g[2] elsewhere
NonScattering(n, g) ==
    [DefaultEngine(n) EXCEPT
       !.porous = [@ EXCEPT !.pore1 = <<873, 875>>, !.pore2 = <<873, 875>>,
                            !.diam2 = <<2, 875>>,
                            !.Omega1 = RZero, !.Omega2 = RZero],
       !.sol = [@ EXCEPT !.T = [j \in 0..(n-1) |-> IF j = 0 THEN g[1] ELSE g[2]]],
       !.prev = [@ EXCEPT !.T = [j \in 0..(n-1) |-> IF j = 0 THEN g[1] ELSE g[2]]]]

\* porous burners on the uniform grid of 2..MaxPoints points, the trigger
\* raised, a solid at temperature 2 with a stored net flux of 5: scattering
\* in a gas at temperature 1, with and without convective coupling, or
\* non-scattering with convective coupling on MaxPoints points
InitSolid ==
    \E n \in 2..MaxPoints :
        \/ \E h \in 0..1, rad \in RadChoices :
            Configured([DefaultEngine(n) EXCEPT
                      !.variant = "porous", !.dosolid = 1,
                      !.Tw = [j \in 0..(n-1) |-> R(2)],
                      !.dq = [j \in 0..(n-1) |-> R(5)],
                      !.env = [DefaultEnv(n, DefaultSol(n)) EXCEPT
                                 !.hconv = [j \in 0..(n-1) |-> h], !.rad = rad]])
        \/ \E g \in GasChoices :
            Configured([NonScattering(MaxPoints, g) EXCEPT
                      !.variant = "porous", !.dosolid = 1,
                      !.Tw = [j \in 0..(MaxPoints-1) |-> R(2)],
                      !.dq = [j \in 0..(MaxPoints-1) |-> R(5)]])

NextSolid ==
    \/ EvalEnterSolid
    \/ SolidOuterPass
    \/ SolidInnerPass
    \/ SolidRelax
    \/ SolidReturn

SpecSolid == InitSolid /\ [][NextSolid]_vars

\* The steps an invocation can still take: one to return, and for each outer
\* pass that can still begin one to begin it, InnerCap + 1 two-flux passes
\* and one to leave the two-flux loop.
StepsLeft ==
    LET perPass == InnerCap + 3
        passes  == OuterCap + 1 - count1
    IN  IF solidPc = "returned" THEN 0
        ELSE IF solidPc = "outer" THEN passes * perPass + 1
        ELSE IF solidPc = "inner" THEN passes * perPass + 1 + (InnerCap + 1 - count) + 1
        ELSE (OuterCap + 1) * perPass + 2

\* C9: every invocation of the solid subsolver terminates, whatever the
\* input (inputs that make the norms NaN or infinite included): the two-flux
\* loop begins at most 101 passes in an outer pass, the outer loop begins at
\* most 401 passes, and every step of an invocation (the step that begins it
\* included) lowers the number of steps it can still take, which is never
\* negative.
C9_SolidTerminates ==
    /\ [](count <= InnerCap + 1 /\ count1 <= OuterCap + 1 /\ StepsLeft >= 0)
    /\ [][solidPc' # "idle" => StepsLeft' < StepsLeft]_vars

\* Witness of C9: an invocation has returned whose outer loop ran its 401
\* passes and whose two-flux loop ran 101 passes in the last of them.
C9_Witness ==
    /\ solidPc = "returned"
    /\ count1 = OuterCap + 1
    /\ count = InnerCap + 1
    /\ fail = 1
    /\ fail1 = 1

\* the case of C10: the invocation has returned and its outer loop ran past
\* the cap
C10_Case ==
    /\ solidPc = "returned"
    /\ count1 > OuterCap

\* C10: when the solid subsolver reaches its outer iteration cap, the call
\* returns without an error and the solid temperature equals, at every point,
\* the solid temperature the invocation started with.
C10_RevertOnOuterCap ==
    C10_Case =>
        /\ evalCall.status = "ok"
        /\ \A i \in 0..(m_points - 1) : Tw[i] = solidEntry.Tw[i]

\* Witness of C10: the outer loop ran past its cap, the entry field is back,
\* and it is not the field a linear solve gives.
C10_Witness ==
    /\ C10_Case
    /\ Tw = solidEntry.Tw
    /\ \A i \in 0..(m_points - 1) : Tw[i][2] # 0
    /\ solveTridiagonal(solidRows(Ctx, evalCall.rdt), m_points) # Tw

\* C11: in an outer pass whose two-flux loop stopped at its cap, not by
\* converging, the net radiative flux after the pass equals, at every point,
\* the net radiative flux before the pass.
C11_StallKeepsFlux ==
    [][(solidPc = "inner" /\ solidPc' = "outer" /\ fail = 1) =>
         \A i \in 0..(m_points - 1) : dq'[i] = dq[i]]_vars

\* C12: the solid temperature and the net radiative flux an invocation finds
\* stored are its starting iterate: the temperature is the one saved as
\* Twprev, and the linear solve of the first outer pass is the solve with the
\* net radiative flux stored at entry, which is not reset.
C12_EntryFluxSeedsFirstPass ==
    (solidPc = "inner" /\ count1 = 1) =>
        /\ Twprev = solidEntry.Tw
        /\ Tw = solveTridiagonal(solidRows([Ctx EXCEPT !.dq = solidEntry.dq],
                                           evalCall.rdt), m_points)

\* the case of C13: the first linear solve of an invocation (the net
\* radiative flux is zero) with no convective coupling at any point and no
\* transient term
C13_Case ==
    /\ solidPc = "inner"
    /\ count1 = 1
    /\ \A i \in 0..(m_points - 1) : hconv[i] = 0 /\ dq[i] = RZero
    /\ evalCall.rdt = 0

\* C13: with zero convective coefficients, zero net radiative flux and zero
\* transient rate the tridiagonal solve is well defined (no zero pivot: every
\* solid temperature is a finite number) and gives the linear-conduction
\* profile: the same slope on both sides of every interior point.
C13_PureConductionSolvable ==
    C13_Case =>
        /\ \A i \in 0..(m_points - 1) : Tw[i][2] # 0
        /\ \A i \in 1..(m_points - 2) :
             RDiv(RSub(Tw[i+1], Tw[i]), R(m_z[i+1] - m_z[i]))
               = RDiv(RSub(Tw[i], Tw[i-1]), R(m_z[i] - m_z[i-1]))

\* The two-flux loop of an outer pass has been left on a finite solid
\* temperature that is uniform over the grid, with zero incident flux at
\* both ends (the emission of the gas temperature at the first point).
C14_Case ==
    /\ solidPc = "outer"
    /\ count1 >= 1
    /\ \A i \in 0..(m_points - 1) : Tw[i] = Tw[0] /\ Tw[i][2] # 0
    /\ T(Ctx, 0) = RZero

-----------------------------------------------------------------------------
(* Jacobian mode: eval for one global point *)

\* The engines of the energy specification, and porous burners on 3 to
\* MaxPoints points whose solid trigger is raised and whose two-flux loop
\* settles, the solution one degree above the stored previous-step solution
\* at every point.
InitJacobian ==
    \/ InitEnergy
    \/ \E n \in 3..MaxPoints : \E flags \in FlagChoices(n) :
         Configured([DefaultEngine(n) EXCEPT
                       !.variant = "porous", !.dosolid = 1, !.do_energy = flags,
                       !.Tw = [j \in 0..(n-1) |-> R(2)],
                       !.sol = [DefaultSol(n) EXCEPT !.T = [j \in 0..(n-1) |-> 2]]])

NextJacobian ==
    \/ NextEval
    \/ NextSolid

SpecJacobian == InitJacobian /\ [][NextJacobian]_vars

\* this step is the entry of an eval call for one global point
C15_Call ==
    /\ evalCall.status = "none"
    /\ evalCall'.status # "none"
    /\ evalCall'.jg # npos

\* C15: an eval call for a single global grid index leaves the same residual
\* and flag entries and the same engine state whatever its rdt argument; in
\* the porous variant with the solid trigger raised the engine enters the
\* solid subsolver in the same state and hands it the rate 0.
C15_JacobianModeIgnoresRdt ==
    [][C15_Call =>
         \A r \in 0..1 :
            IF variant = "porous" /\ dosolid = 1
            THEN \E p \in {evalPrefix(Ctx, evalCall'.jg, r)} :
                    /\ StoreEval(p.c)
                    /\ evalCall'.rdt = p.rdt
                    /\ evalCall'.rdt = 0
                    /\ (p.status = "ok") = (evalCall'.status = "solid")
                    /\ rsd' = rsd /\ diag' = diag
            ELSE \E b \in {evalBody(Ctx, evalCall'.jg, r, rsd, diag)} :
                    /\ StoreEval(b.c)
                    /\ rsd' = b.rsd
                    /\ diag' = b.diag
                    /\ evalCall'.status = b.status
                    /\ evalCall'.rdt = b.rdt]_vars

\* a Jacobian-mode call of a porous burner has run the solid subsolver and
\* formed the energy row of an interior point whose temperature differs from
\* the stored previous-step one
C15_Witness ==
    /\ variant = "porous"
    /\ solidPc = "returned"
    /\ evalCall.jg # npos
    /\ evalCall.status = "ok"
    /\ evalCall.rdt = 0
    /\ \E j \in 1..(m_points - 2) :
         /\ evalCall.jmin <= j /\ j <= evalCall.jmax
         /\ m_do_energy[j]
         /\ x.T[j] # x_prev.T[j]

-----------------------------------------------------------------------------
(* Transport selection: StFlow::setTransport and StFlow::enableSoret *)

\* the models of the transport managers a caller can hand to setTransport:
\* mixture-averaged, multicomponent, and any other
TransportModels == {"mixav", "multi", "other"}

\* StFlow::setTransport(trans, withSoret) on the selection t = [trans,
\* option, soret]: the manager and the Soret flag are stored first, then the
\* model decides the option, the arrays that are resized and the outcome.
setTransport(t, model, withSoret) ==
    IF model = "multi"
    THEN [trans |-> model, soret |-> withSoret, option |-> "multi",
          resized |-> "multi", status |-> "ok"]
    ELSE IF model = "mixav"
    THEN [trans |-> model, soret |-> withSoret, option |-> "mixav",
          resized |-> "mixav",
          status |-> IF withSoret THEN "SoretRequiresMulticomponent" ELSE "ok"]
    ELSE [trans |-> model, soret |-> withSoret, option |-> t.option,
          resized |-> "none", status |-> "UnknownTransportModel"]

\* StFlow::enableSoret(withSoret) on the selection t
enableSoret(t, withSoret) ==
    IF t.option = "multi"
    THEN [t EXCEPT !.soret = withSoret] @@ [status |-> "ok"]
    ELSE t @@ [status |-> "SoretRequiresMulticomponent"]

Selection == [trans |-> m_trans, option |-> m_transport_option, soret |-> m_do_soret]

\* The caller selects a transport manager before the solver's eval call.
SetTransport ==
    /\ evalCall.status = "none"
    /\ \E model \in TransportModels, withSoret \in BOOLEAN :
         \E r \in {setTransport(Selection, model, withSoret)} :
            /\ m_trans' = r.trans
            /\ m_do_soret' = r.soret
            /\ m_transport_option' = r.option
            /\ m_multidiff' = IF r.resized = "multi"
                              THEN [k \in Species |-> [m \in Species |->
                                      VecResize(m_multidiff[k][m], m_points, 0)]]
                              ELSE m_multidiff
            /\ m_diff' = IF r.resized # "none"
                         THEN [k \in Species |-> VecResize(m_diff[k], m_points, RZero)]
                         ELSE m_diff
            /\ m_dthermal' = IF r.resized = "multi"
                             THEN [k \in Species |-> VecResize(m_dthermal[k], m_points, 0)]
                             ELSE m_dthermal
            /\ lastCall' = [op |-> "setTransport", arg |-> <<model, withSoret>>,
                            status |-> r.status]
            /\ selectedOk' = (selectedOk \/ r.status = "ok")
    /\ UNCHANGED <<gridVars, variant, firstPt, m_do_radiation, m_dovisc, solutionVars>>
    /\ UNCHANGED <<m_flux, m_wdot, bufferVars, porousVars, solidVars, anchorVars>>
    /\ UNCHANGED <<m_do_species, evalLog, kineticsVars>>

\* The caller switches the Soret term before the solver's eval call.
EnableSoret ==
    /\ evalCall.status = "none"
    /\ \E withSoret \in BOOLEAN :
         \E r \in {enableSoret(Selection, withSoret)} :
            /\ m_do_soret' = r.soret
            /\ lastCall' = [op |-> "enableSoret", arg |-> <<withSoret>>,
                            status |-> r.status]
    /\ UNCHANGED <<gridVars, variant, firstPt, m_transport_option, m_do_radiation,
                   m_dovisc, solutionVars, cacheVars, bufferVars, porousVars>>
    /\ UNCHANGED <<solidVars, anchorVars, m_trans, m_do_species, selectedOk, evalLog,
                   kineticsVars>>

\* engines of each variant on 2 to MaxPoints points as their constructor
\* leaves the transport selection: no manager, option -1, no Soret term
InitTransport ==
    \E vr \in Variants, n \in 2..MaxPoints :
        Configured([DefaultEngine(n) EXCEPT !.variant = vr, !.option = "none"])

NextTransport ==
    \/ SetTransport
    \/ EnableSoret
    \/ Eval

SpecTransport == InitTransport /\ [][NextTransport]_vars

\* C16: in every state reachable by setTransport and enableSoret calls,
\* failed ones included, the Soret flag is enabled only if the transport
\* option is multicomponent, and a rejected request for Soret with a
\* mixture-averaged model leaves the flag off.
C16_SoretOnlyWithMulticomponent ==
    /\ m_do_soret => m_transport_option = "multi"
    /\ (lastCall.op = "setTransport" /\ lastCall.status = "SoretRequiresMulticomponent")
          => ~m_do_soret

\* C17: on an engine for which no transport model has been successfully
\* selected every eval that is not skipped fails with the
\* unknown-transport-model error and leaves the caller's residual and flag
\* buffers as they were.
C17_EvalWithoutTransportFails ==
    [][(/\ evalCall.status = "none"
        /\ evalCall'.status \notin {"none", "skipped"}
        /\ ~selectedOk)
          => /\ evalCall'.status = "UnknownTransportModel"
             /\ rsd' = rsd
             /\ diag' = diag]_vars

-----------------------------------------------------------------------------
(* Restoring a saved solution: StFlow::restore *)

\* A saved domain, as far as restore looks at it: the grid array "z" of np
\* points (increasing or not), the lengths of the arrays "u", "V", "T", "L"
\* and of one array per species, in this order, and the energy_enabled and
\* species_enabled arrays, each absent (Absent) or of the given length.
\* A saved array is as long as the grid or one entry longer.
Absent == -1

\* the entries of the restored arrays
RestoredU == 2
RestoredV == 3
RestoredT == 4
RestoredL == 5
RestoredY == <<1, 2>>

Documents ==
    UNION {[np : {np},
            increasing : BOOLEAN,
            u : {np, np + 1}, V : {np, np + 1}, T : {np, np + 1}, L : {np, np + 1},
            Y : [Species -> {np, np + 1}],
            energy_enabled : {Absent, 0, np, np + 1},
            species_enabled : {Absent, 0, NSp, NSp + 1}] : np \in 2..MaxPoints}

\* the grid array of the document
restoredGrid(doc) == [j \in 0..(doc.np - 1) |-> IF doc.increasing THEN j ELSE 0]

\* Mutant of sizeError: only an array that is too short is rejected.
sizeError_TooShort(len, np) == len < np

\* the test  x.size() != np  of the arrays u, V, T and L
sizeError(len, np) == len # np

\* One of the arrays u, V, T, L: throws on a size error, otherwise copies the
\* array into the component comp of the caller's solution.
restoreComponent(s, comp, len, np, v) ==
    IF s.status # "ok" THEN s
    ELSE IF sizeError(len, np) THEN [s EXCEPT !.status = "DataLengthMismatch"]
    ELSE [s EXCEPT !.sol[comp] = [j \in 0..(np - 1) |-> v]]

\* The array "T" is also handed to setFixedTempProfile: the profile has np
\* nodes, the grid points, and interpolates to the restored temperatures.
restoreTemperature(s, len, np) ==
    IF s.status # "ok" \/ sizeError(len, np) THEN restoreComponent(s, "T", len, np, RestoredT)
    ELSE [restoreComponent(s, "T", len, np, RestoredT) EXCEPT
            !.zfix = [nz |-> np, tt |-> [j \in 0..(np - 1) |-> RestoredT]]]

\* The array of species k is copied only when its size is np.
RECURSIVE restoreSpecies(_, _, _, _)
restoreSpecies(s, Ylen, np, k) ==
    IF k >= NSp \/ s.status # "ok" THEN s
    ELSE restoreSpecies(IF Ylen[k] = np
                        THEN [s EXCEPT !.sol.Y[k] = [j \in 0..(np - 1) |-> RestoredY],
                                       !.did_species[k] = 1]
                        ELSE s,
                        Ylen, np, k + 1)

\* energy_enabled: copied when as long as the grid, ignored when empty,
\* an error otherwise.  The saved flags are all set.
restoreEnergyEnabled(s, len) ==
    IF s.status # "ok" \/ len = Absent THEN s
    ELSE IF len = s.g.points
    THEN [s EXCEPT !.g.do_energy = [i \in 0..(len - 1) |-> TRUE]]
    ELSE IF len # 0 THEN [s EXCEPT !.status = "DataLengthMismatch"]
    ELSE s

\* species_enabled: copied when there is one entry per species; any other
\* non-empty array enables every species equation.  The saved flags are all
\* clear.
restoreSpeciesEnabled(s, len) ==
    IF s.status # "ok" \/ len = Absent THEN s
    ELSE IF len = NSp
    THEN [s EXCEPT !.do_species = [k \in Species |-> FALSE]]
    ELSE IF len # 0 THEN [s EXCEPT !.do_species = [k \in Species |-> TRUE]]
    ELSE s

\* The caller's solution buffer, sized for np points.
SolResize(sol, np) ==
    [u |-> VecResize(sol.u, np, 0), V |-> VecResize(sol.V, np, 0),
     T |-> VecResize(sol.T, np, 0), L |-> VecResize(sol.L, np, 0),
     Y |-> [k \in Species |-> VecResize(sol.Y[k], np, RZero)]]

\* StFlow::restore(dom, soln, loglevel) on s = [g, sol, zfix, do_species]:
\* the grid first, then the arrays in document order, then the two flag
\* arrays.  An exception leaves what was written before it.
restore(s, doc) ==
    LET r  == setupGrid(s.g, doc.np, restoredGrid(doc))
        s0 == [g |-> r.g, sol |-> SolResize(s.sol, doc.np), zfix |-> s.zfix,
               do_species |-> s.do_species,
               did_species |-> [k \in Species |-> 0],
               status |-> IF r.err = "ok" THEN "ok" ELSE r.err]
        s1 == restoreComponent(s0, "u", doc.u, doc.np, RestoredU)
        s2 == restoreComponent(s1, "V", doc.V, doc.np, RestoredV)
        s3 == restoreTemperature(s2, doc.T, doc.np)
        s4 == restoreComponent(s3, "L", doc.L, doc.np, RestoredL)
        s5 == restoreSpecies(s4, doc.Y, doc.np, 0)
        s6 == restoreEnergyEnabled(s5, doc.energy_enabled)
    IN  restoreSpeciesEnabled(s6, doc.species_enabled)

\* A caller restores a saved domain into a freshly set-up engine.
Restore ==
    /\ lastCall.op = "none"
    /\ evalCall.status = "none"
    /\ \E doc \in Documents :
         /\ \E r \in {restore([g |-> GridState, sol |-> x, zfix |-> m_zfix,
                               do_species |-> m_do_species], doc)} :
              /\ StoreGrid(r.g)
              /\ resizeCaches(doc.np)
              /\ x' = r.sol
              /\ m_zfix' = r.zfix
              /\ m_do_species' = r.do_species
              /\ lastCall' = [op |-> "restore", arg |-> doc, status |-> r.status]
    /\ UNCHANGED <<gridCall, configVars, x_prev, env, bufferVars, porousVars, solidVars>>
    /\ UNCHANGED <<m_zfixed, m_tfixed, finLog, m_trans, selectedOk, evalLog,
                   kineticsVars>>

\* engines of each variant on two points, as set up before a restore
InitRestore ==
    \E vr \in Variants : Configured([DefaultEngine(2) EXCEPT !.variant = vr])

NextRestore == Restore

SpecRestore == InitRestore /\ [][NextRestore]_vars

\* the document of the restore call that has been made
Restored == lastCall.arg

\* the grid of the restored document was accepted by setupGrid
RestoreGridAccepted == lastCall.op = "restore" /\ lastCall.status # "InvalidGrid"

\* the restored document has an array of a length other than the expected one
C18_AnyMismatch ==
    \/ \E a \in {Restored.u, Restored.V, Restored.T, Restored.L} : a # Restored.np
    \/ \E k \in Species : Restored.Y[k] # Restored.np
    \/ Restored.energy_enabled \notin {Absent, Restored.np}
    \/ Restored.species_enabled \notin {Absent, NSp}

\* the mismatches restore rejects: u, V, T, L, and a non-empty energy_enabled
C18_RejectedMismatch ==
    \/ \E a \in {Restored.u, Restored.V, Restored.T, Restored.L} : a # Restored.np
    \/ Restored.energy_enabled \notin {Absent, 0, Restored.np}

-----------------------------------------------------------------------------
(* The flag buffer of a whole-grid eval *)

\* what the caller's flag buffer holds before the call: all rows algebraic,
\* all rows differential, or alternating
DiagChoices(n) ==
    {[comp \in Components |-> [j \in 0..(n-1) |-> 0]],
     [comp \in Components |-> [j \in 0..(n-1) |-> 1]],
     [comp \in Components |-> [j \in 0..(n-1) |-> (comp + j) % 2]]}

\* engines of each variant on 2 to MaxPoints points, with each choice of the
\* energy flags and of the contents of the caller's flag buffer
InitFlags ==
    \E vr \in Variants, n \in 2..MaxPoints :
      \E flags \in FlagChoices(n), buf \in DiagChoices(n) :
          Configured([DefaultEngine(n) EXCEPT
                        !.variant = vr, !.do_energy = flags, !.diag = buf])

NextFlags == Eval

SpecFlags == InitFlags /\ [][NextFlags]_vars

\* a whole-grid eval has returned normally
WholeGridEvalDone == evalCall.status = "ok" /\ evalCall.jg = npos

\* C19: after a whole-grid eval, whatever the flag buffer held before, the
\* pressure-eigenvalue row and the first species row are flagged algebraic
\* at the left boundary point and at the right boundary point, in every
\* variant.
C19_BoundaryRowsAlgebraic ==
    WholeGridEvalDone =>
        \A j \in {0, m_points - 1} :
            /\ diag[c_offset_L][j] = 0
            /\ diag[c_offset_Y][j] = 0

\* the step of a whole-grid eval that returns normally
C20_Call ==
    /\ evalCall.status = "none"
    /\ evalCall'.status = "ok"
    /\ evalCall'.jg = npos

\* the flags the claim gives the rows of interior point j
C20_InteriorFlags(d, j) ==
    /\ d[c_offset_U][j] = 0
    /\ d[c_offset_V][j] = 1
    /\ \A k \in Species : d[c_offset_Y + k][j] = 1
    /\ d[c_offset_T][j] = (IF m_do_energy[j] THEN 1 ELSE 0)
    /\ d[c_offset_L][j] = 0

\* C20: after a whole-grid eval the flag of every row of the domain is a
\* function of the row's position and the energy flags only: the same call
\* with any other contents of the caller's flag buffer leaves the same flags
\* in all rows; at interior points continuity is algebraic, radial momentum
\* and every species row differential, energy differential or algebraic by
\* its flag, pressure-eigenvalue algebraic.
C20_FlagsIndependentOfBuffer ==
    [][C20_Call =>
         /\ \A other \in DiagChoices(m_points) :
               evalBody(Ctx, npos, evalCall'.rdt, rsd, other).diag = diag'
         /\ \A j \in 1..(m_points - 2) : C20_InteriorFlags(diag', j)]_vars

-----------------------------------------------------------------------------
(* The rows the variants share; the radiative sink *)

\* radial velocities of the solution: at rest, or growing with the square of
\* the point index
RadialChoices(n) == {Zeros(n), [j \in 0..(n-1) |-> j * j]}

\* the first porosity of a porous burner: 1 (no solid) or 1/2
PorosityChoices == {R(1), <<1, 2>>}

\* engines of each variant on 3 to MaxPoints points, radiation enabled or
\* not, with each choice of the energy flags; the solid is as hot as the gas
InitRadiation ==
    \E vr \in Variants, n \in 3..MaxPoints :
      \E flags \in FlagChoices(n), rad \in BOOLEAN :
        \E Vp \in RadialChoices(n), p1 \in PorosityChoices :
          Configured([DefaultEngine(n) EXCEPT
                        !.variant = vr, !.do_energy = flags, !.radiation = rad,
                        !.sol = [DefaultSol(n) EXCEPT !.V = Vp],
                        !.porous = [DefaultEngine(n).porous EXCEPT !.pore1 = p1],
                        !.Tw = [j \in 0..(n-1) |-> R(DefaultSol(n).T[j])]])

SpecRadiation == InitRadiation /\ [][NextEval]_vars

\* the porous modifications vanish: porosity 1 at every point, the solid as
\* hot as the gas
PorousVanishes(c) ==
    /\ c.porous.pore1 = R(1)
    /\ c.porous.pore2 = R(1)
    /\ \A j \in 0..(c.points - 1) : c.Tw[j] = T(c, j)

\* the engine c as an engine of variant v
AsVariant(c, v) == [c EXCEPT !.variant = v]

\* the step of an eval call that returns normally
EvalReturns ==
    /\ evalCall.status = "none"
    /\ evalCall'.status = "ok"

\* the interior points the call has assembled
AssembledInterior(e) ==
    {j \in 1..(m_points - 2) : e.jmin <= j /\ j <= e.jmax}

\* C21: for the same engine state and solution, the radial-momentum,
\* species, energy and pressure-eigenvalue rows of every interior point are
\* the same in all variants, for the porous variant whenever its porous
\* modifications vanish, with radiation enabled or disabled.
C21_SharedInteriorRows ==
    [][EvalReturns =>
         \A v \in Variants :
            (("porous" \in {v, variant}) => PorousVanishes(Ctx)) =>
               \E b \in {evalBody(AsVariant(Ctx, v), evalCall'.jg, evalCall'.rdt,
                                  rsd, diag)} :
                  /\ b.status = "ok"
                  /\ \A j \in AssembledInterior(evalCall') :
                       \A n \in Components \ {c_offset_U} :
                          b.rsd[n][j] = rsd'[n][j]]_vars

-----------------------------------------------------------------------------
(* The container's trigger flag over a sequence of eval calls *)

\* the number of entries the log of the trigger flag can take
MaxCalls == 3

\* The container raises the trigger between two eval calls.
SetTrigger ==
    /\ evalCall.status = "none"
    /\ dosolid = 0
    /\ Len(evalLog) <= MaxCalls
    /\ dosolid' = 1
    /\ evalLog' = Append(evalLog, [kind |-> "set", ran |-> FALSE, status |-> "none",
                                   flag |-> 1])
    /\ UNCHANGED <<gridVars, configVars, solutionVars, cacheVars, bufferVars, solidVars>>
    /\ UNCHANGED <<porous, pore, diam, scond, hconv, Tw, dq, anchorVars>>
    /\ UNCHANGED <<m_trans, m_do_species, lastCall, selectedOk, kineticsVars>>

\* The eval call has returned or thrown: the solver goes on to its next call.
EvalCallReturns ==
    /\ evalCall.status \notin {"none", "solid"}
    /\ Len(evalLog) <= MaxCalls
    /\ evalLog' = Append(evalLog, [kind |-> "eval", ran |-> (solidPc = "returned"),
                                   status |-> evalCall.status, flag |-> dosolid])
    /\ evalCall' = NoEvalCall
    /\ solidPc' = "idle"
    /\ UNCHANGED <<gridVars, configVars, solutionVars, cacheVars, rsd, diag, porousVars>>
    /\ UNCHANGED <<Twprev, count1, fail1, change1, count, fail, change2, dqnew,
                   solidEntry>>
    /\ UNCHANGED <<anchorVars, m_trans, m_do_species, lastCall, selectedOk,
                   kineticsVars>>

\* a porous burner on three points, the trigger raised or not, with a
\* transport model selected or not
InitTrigger ==
    \E flag \in 0..1, opt \in {"mixav", "none"} :
        Configured([DefaultEngine(3) EXCEPT
                      !.variant = "porous", !.dosolid = flag, !.option = opt])

NextTrigger ==
    \/ Eval
    \/ NextSolid
    \/ SetTrigger
    \/ EvalCallReturns

SpecTrigger == InitTrigger /\ [][NextTrigger]_vars

\* the trigger flag at the entry of the call logged at position i
FlagAtEntry(i) == evalLog[i - 1].flag

\* the eval calls logged after position i and before the next raising of
\* the flag that ran the subsolver
RunsAfter(i) ==
    {m \in (i + 1)..Len(evalLog) :
        /\ evalLog[m].kind = "eval"
        /\ evalLog[m].ran
        /\ \A q \in (i + 1)..m : evalLog[q].kind # "set"}

\* C22 as stated: an eval call that is not skipped runs the subsolver if the
\* trigger is 1 at entry and not otherwise, and leaves the trigger at 0
\* after running it; after one raising of the flag at most one of the
\* following calls runs the subsolver; a skipped call leaves the flag
\* unchanged.
C22_TriggerRunsSolidOnce ==
    \A i \in 2..Len(evalLog) :
        /\ evalLog[i].kind = "eval" =>
             /\ evalLog[i].status # "skipped" =>
                  /\ evalLog[i].ran <=> FlagAtEntry(i) = 1
                  /\ evalLog[i].ran => evalLog[i].flag = 0
             /\ evalLog[i].status = "skipped" =>
                  /\ ~evalLog[i].ran
                  /\ evalLog[i].flag = FlagAtEntry(i)
        /\ evalLog[i].kind = "set" => Cardinality(RunsAfter(i)) <= 1

\* C22, amended: the same of every eval call that is neither skipped nor
\* ended by the unknown-transport-model error of the flux update; a call
\* ended by that error runs no subsolver and leaves the flag unchanged.
C22_TriggerRunsSolidOnceUnlessThrown ==
    \A i \in 2..Len(evalLog) :
        /\ evalLog[i].kind = "eval" =>
             /\ evalLog[i].status = "ok" =>
                  /\ evalLog[i].ran <=> FlagAtEntry(i) = 1
                  /\ evalLog[i].ran => evalLog[i].flag = 0
             /\ evalLog[i].status # "ok" =>
                  /\ evalLog[i].status \in {"skipped", "UnknownTransportModel"}
                  /\ ~evalLog[i].ran
                  /\ evalLog[i].flag = FlagAtEntry(i)
        /\ evalLog[i].kind = "set" => Cardinality(RunsAfter(i)) <= 1

\* the flag was raised, the next call was skipped, the call after it ran
\* the subsolver and the call after that did not
C22_Witness ==
    \E i \in 2..(Len(evalLog) - 2) :
        /\ evalLog[i].kind = "eval" /\ evalLog[i].status = "skipped"
        /\ FlagAtEntry(i) = 1
        /\ evalLog[i + 1].kind = "eval" /\ evalLog[i + 1].ran
        /\ evalLog[i + 2].kind = "eval" /\ evalLog[i + 2].status = "ok"
        /\ ~evalLog[i + 2].ran

-----------------------------------------------------------------------------
(* The solid property profiles of PorousFlow::eval *)

\* the number of points of the burners whose profiles are examined: points
\* left of the band, on its edges, inside it and right of it
ProfilePoints == 5

\* porous burners on the unit grid of ProfilePoints points, the band
\* around the middle of the grid or off it, one or two intervals wide
\* on either side, with two albedos and each choice of the energy flags
InitProfiles ==
    \E mid \in 1..(ProfilePoints - 2), half \in 1..2 :
      \E flags \in FlagChoices(ProfilePoints) :
        Configured([DefaultEngine(ProfilePoints) EXCEPT
                      !.variant = "porous", !.do_energy = flags,
                      !.porous = [DefaultEngine(ProfilePoints).porous EXCEPT
                                    !.zmid = mid, !.dzmid = half,
                                    !.Omega1 = <<1, 4>>, !.Omega2 = <<1, 2>>]])

SpecProfiles == InitProfiles /\ [][NextEval]_vars

\* the extinction coefficient of a solid of porosity p and pore diameter d
Extinction(p, d) == RDiv(RMul(R(3), RSub(R(1), p)), d)

\* a porous eval call has set the profiles
ProfilesSet == variant = "porous" /\ evalCall.status = "ok"

\* C23: each per-point solid property (porosity, pore diameter, solid
\* conductivity, extinction coefficient, scattering albedo) is its first
\* endpoint value left of the band [zmid - dzmid, zmid + dzmid], its second
\* endpoint value right of it and the linear interpolation between the two
\* inside it.
C23_ProfilesInterpolated ==
    ProfilesSet =>
      \E c \in {Ctx} :
        \A i \in 0..(m_points - 1) :
          /\ pore[i] = PorousProfile(c, c.porous.pore1, c.porous.pore2, i)
          /\ diam[i] = PorousProfile(c, c.porous.diam1, c.porous.diam2, i)
          /\ scond[i] = PorousProfile(c, c.porous.scond1, c.porous.scond2, i)
          /\ RK(c, i) = fl(PorousProfile(c, Extinction(c.porous.pore1, c.porous.diam1),
                                         Extinction(c.porous.pore2, c.porous.diam2), i))
          /\ Omega(c, i) = PorousProfile(c, c.porous.Omega1, c.porous.Omega2, i)

-----------------------------------------------------------------------------
(* The radiative sink of the energy rows *)

\* the engine with the sink of every point recomputed from the current
\* solution
SinkRecomputed(c) == [c EXCEPT !.qdot = [j \in DOMAIN c.qdot |-> c.env.qrad[j]]]

\* C24: with radiation enabled, in every eval call, whole-grid or
\* Jacobian-mode, the energy row of each assembled interior point is formed
\* with the sink recomputed from the current solution in that call, not with
\* a sink left over from before the call.
C24_SinkRecomputedBeforeUse ==
    (evalCall.status = "ok" /\ m_do_radiation) =>
       \E c \in {Ctx} :
         \A j \in AssembledInterior(evalCall) :
            m_do_energy[j] =>
               rsd[c_offset_T][j] = EnergyRow(SinkRecomputed(c), j, evalCall.rdt)

-----------------------------------------------------------------------------
(* The property window of an eval call *)

\* the number of points of the engines whose windows are examined: a
\* Jacobian-mode window can leave out the first point
WindowPoints == 4

\* engines of each variant on the unit grid of WindowPoints points, with each
\* choice of the energy flags; the flame anchored at the point before the
\* last or not at all
InitWindow ==
    \E vr \in Variants, flags \in FlagChoices(WindowPoints) :
      \E anchor \in {Undef, WindowPoints - 2} :
        Configured([DefaultEngine(WindowPoints) EXCEPT
                      !.variant = vr, !.do_energy = flags,
                      !.zfixed = anchor, !.tfixed = 1])

SpecWindow == InitWindow /\ [][NextEval]_vars

\* The engine c with other values in every cached density, mean molecular
\* weight and heat capacity outside the points w.j0..w.j1 and in every
\* diffusive flux outside the intervals w.j0..w.j1-1: the entries an eval
\* call with the window w does not recompute.
OutsideWindowChanged(c, w) ==
    LET in(j) == w.j0 <= j /\ j <= w.j1
    IN  [c EXCEPT
           !.rho = [j \in DOMAIN c.rho |-> IF in(j) THEN c.rho[j] ELSE c.rho[j] + 1],
           !.wtm = [j \in DOMAIN c.wtm |->
                      IF in(j) THEN c.wtm[j] ELSE RAdd(c.wtm[j], R(1))],
           !.cp = [j \in DOMAIN c.cp |-> IF in(j) THEN c.cp[j] ELSE c.cp[j] + 1],
           !.flux = [k \in Species |-> [j \in DOMAIN c.flux[k] |->
                       IF in(j) /\ j < w.j1 THEN c.flux[k][j]
                       ELSE RAdd(c.flux[k][j], R(1))]]]

\* C25: in every eval call, for any requested index, every cached
\* thermodynamic entry and every diffusive flux read while the rows of the
\* points jmin..jmax are assembled was recomputed earlier in the same call:
\* the rows do not depend on the cached entries outside [j0, j1] or on the
\* fluxes outside [j0, j1), whatever the variant.
C25_RowsReadInsideWindow ==
    [][EvalReturns =>
         \E c \in {Ctx} :
           \E b \in {evalBody(OutsideWindowChanged(c, EvalWindow(c, evalCall'.jg)),
                              evalCall'.jg, evalCall'.rdt, rsd, diag)} :
              /\ b.jmin = evalCall'.jmin /\ b.jmax = evalCall'.jmax
              /\ \A j \in evalCall'.jmin..evalCall'.jmax :
                   \A n \in Components : b.rsd[n][j] = rsd'[n][j]]_vars

\* ---------------------------------------------------------------------
\* The end rows of the solid energy system
\* ---------------------------------------------------------------------

\* The linear solve of an outer pass of PorousFlow::solid has just been done:
\* the two-flux loop of the pass has not begun a sweep yet.
LinearSolveDone == solidPc = "inner" /\ count = 0

\* C26: after the linear solve of each outer pass of the solid subsolver the
\* solid temperature at the first grid point is the gas temperature at the
\* first grid point, and the solid temperature at the last grid point is the
\* gas temperature at the last grid point.
C26_EndsPinnedToGas ==
    LinearSolveDone =>
        /\ Tw[0] = T(Ctx, 0)
        /\ Tw[m_points - 1] = T(Ctx, m_points - 1)

\* ---------------------------------------------------------------------
\* The domain of influence of a Jacobian-mode eval call
\* ---------------------------------------------------------------------

\* the largest global index of the first local point considered
MaxFirstPoint == 3

\* Engines of every variant on 2 or 3 points, placed in the global arrays
\* with zero to MaxFirstPoint points of other domains before them.
InitInfluence ==
    \E vr \in Variants, n \in 2..3, fp \in 0..MaxFirstPoint :
        Configured([DefaultEngine(n) EXCEPT !.variant = vr, !.firstPt = fp])

SpecInfluence == InitInfluence /\ [][NextEval]_vars

\* The local points within one grid point of the global point jg
Neighbourhood(jg) ==
    {j \in 0..(m_points - 1) :
        firstPt + j - jg <= 1 /\ jg - (firstPt + j) <= 1}

\* An eval call for one global point has passed the domain-of-influence
\* test and returned.
InfluenceCall == evalCall.status = "ok" /\ evalCall.jg # npos

\* C27: for every global point jg that passes the domain-of-influence test
\* the window jmin..jmax and the property window j0..j1 stay inside
\* 0..m_points-1 (no unsigned wrap-around), and the rows assembled are those
\* of the local points within one grid point of jg and no others; so the
\* first local point is assembled for jg = firstPoint() - 1 and the last
\* local point for jg = lastPoint() + 1.
C27_WindowIsNeighbourhood ==
    InfluenceCall =>
        /\ \A i \in {evalCall.jmin, evalCall.jmax, evalCall.j0, evalCall.j1} :
              i <= m_points - 1
        /\ {j \in 0..(m_points - 1) : evalCall.jmin <= j /\ j <= evalCall.jmax}
              = Neighbourhood(evalCall.jg)

\* ---------------------------------------------------------------------
\* A stall of the two-flux loop ends the solve
\* ---------------------------------------------------------------------

\* The two-flux loop of the current outer pass stopped at its cap, in an
\* outer pass that is not past the cap of the outer loop.
StalledPass == fail = 1 /\ count1 <= OuterCap

\* C28: when the two-flux loop stalls in an outer pass that is not past the
\* outer cap, the outer loop is left at the end of that pass (its test
\* change1 > 0.000001 fails, with no failure recorded), and the call returns
\* the solid temperature of that pass's linear solve: the field is changed
\* neither by the end of the pass nor by the return.
C28_StallEndsSolve ==
    /\ []((solidPc = "outer" /\ StalledPass) => (~Exceeds(change1) /\ fail1 = 0))
    /\ [][(StalledPass /\ solidPc \in {"inner", "outer"}
             /\ solidPc' \in {"outer", "returned"} /\ solidPc' # solidPc)
           => Tw' = Tw]_vars

\* Witness of C28: a call has returned after a stall in an outer pass before
\* the cap, with a finite solid temperature that is not the one stored at
\* entry.
C28_Witness ==
    /\ solidPc = "returned"
    /\ StalledPass
    /\ fail1 = 0
    /\ evalCall.status = "ok"
    /\ Tw # solidEntry.Tw
    /\ \A i \in 0..(m_points - 1) : Tw[i][2] # 0

\* ---------------------------------------------------------------------
\* The anchor row of a free flame after _finalize
\* ---------------------------------------------------------------------

\* number of grid points of the anchored flames
AnchorGridPoints == 4

\* Free flames on the grid 0, 2, 4, ... with the anchor temperature 1 and a
\* temperature profile that steps from 0 to 2 across one interval (any of
\* them); the anchor coordinate between the first two points, at the first
\* point or at the third; every choice of the energy flags.
InitAnchored ==
    \E step \in 1..(AnchorGridPoints - 1), zf \in {1, 0, 4},
       flags \in FlagChoices(AnchorGridPoints) :
        Configured([DefaultEngine(AnchorGridPoints) EXCEPT
                      !.variant = "free",
                      !.zz = [j \in 0..(AnchorGridPoints - 1) |-> 2 * j],
                      !.sol = [DefaultSol(AnchorGridPoints) EXCEPT
                                 !.T = [j \in 0..(AnchorGridPoints - 1) |->
                                          IF j < step THEN 0 ELSE 2]],
                      !.zfixed = zf, !.tfixed = 1, !.do_energy = flags])

NextAnchored == Finalize \/ Eval

SpecAnchored == InitAnchored /\ [][NextAnchored]_vars

\* the interior grid points at the anchor coordinate
AnchorRows == {j \in 1..(m_points - 2) : m_z[j] = m_zfixed}

\* _finalize has been called on a solution whose temperature profile crosses
\* the defined anchor temperature the call found.
FinalizedOnCrossing ==
    /\ Len(finLog) >= 2
    /\ AnchorBefore[2] # Undef
    /\ \E j \in 0..(m_points - 2) : CrossesInside(j, AnchorBefore[2])

\* C29: after FreeFlame::_finalize on a solution whose temperature profile
\* crosses a defined anchor temperature exactly one grid point lies at the
\* anchor coordinate and it is an interior point, and a following whole-grid
\* eval leaves in the continuity row of that point the anchor constraint:
\* T(j) minus the anchor temperature when the energy flag of j is set, the
\* pinned mass flux rho_u(j) - 0.3 rho(0) otherwise.
C29_OneInteriorAnchorRow ==
    [][(EvalReturns /\ evalCall'.jg = npos /\ FinalizedOnCrossing) =>
         /\ \A j \in 0..(m_points - 1) : m_z[j] = m_zfixed => j \in AnchorRows
         /\ Cardinality(AnchorRows) = 1
         /\ \A j \in AnchorRows :
              rsd'[c_offset_U][j] =
                 IF m_do_energy[j] THEN R(x.T[j] - m_tfixed)
                 ELSE RSub(RMul(R(m_rho'[j]), R(x.u[j])),
                           RMul(R(m_rho'[0]), <<3, 10>>))]_vars

\* ---------------------------------------------------------------------
\* InterfaceKinetics: the phase-existence check counter
\* ---------------------------------------------------------------------

\* largest number of phases added to the kinetics object
MaxPhases == 3

\* the phase bookkeeping of the kinetics object; phase iphase of the source
\* is entry iphase + 1 of the vectors
Kin == [exists |-> m_phaseExists, stable |-> m_phaseIsStable,
        check |-> m_phaseExistsCheck, status |-> "ok"]

\* InterfaceKinetics::addPhase
addPhase(k) ==
    [k EXCEPT !.exists = Append(@, TRUE), !.stable = Append(@, TRUE)]

\* Mutant of setPhaseExistence: the counter is lowered whenever a phase is
\* marked as existing, whether it was marked as missing or not.
setPhaseExistence_AlwaysLowered(k, iphase, exists) ==
    IF iphase >= Len(k.exists) THEN [k EXCEPT !.status = "out of bounds"]
    ELSE IF exists # 0
    THEN [k EXCEPT !.check = Max(k.check - 1, 0),
                   !.exists[iphase + 1] = TRUE, !.stable[iphase + 1] = TRUE]
    ELSE [k EXCEPT !.check = IF k.exists[iphase + 1] THEN k.check + 1 ELSE k.check,
                   !.exists[iphase + 1] = FALSE, !.stable[iphase + 1] = FALSE]

\* InterfaceKinetics::setPhaseExistence(iphase, exists)
setPhaseExistence(k, iphase, exists) ==
    IF iphase >= Len(k.exists) THEN [k EXCEPT !.status = "out of bounds"]
    ELSE IF exists # 0
    THEN [k EXCEPT !.check = IF ~k.exists[iphase + 1] THEN Max(k.check - 1, 0)
                             ELSE k.check,
                   !.exists[iphase + 1] = TRUE, !.stable[iphase + 1] = TRUE]
    ELSE [k EXCEPT !.check = IF k.exists[iphase + 1] THEN k.check + 1 ELSE k.check,
                   !.exists[iphase + 1] = FALSE, !.stable[iphase + 1] = FALSE]

\* InterfaceKinetics::setPhaseStability(iphase, isStable)
setPhaseStability(k, iphase, isStable) ==
    IF iphase >= Len(k.exists) THEN [k EXCEPT !.status = "out of bounds"]
    ELSE [k EXCEPT !.stable[iphase + 1] = (isStable # 0)]

\* The loop over the phases p, p+1, ... of the phase-existence block of
\* updateROP for one reaction, on the rates s = [ropf, ropr, ropnet];
\* reverse is the branch taken for the reaction (m_ropr > m_ropf).
RECURSIVE phaseLoop(_, _, _, _, _)
phaseLoop(k, rxn, reverse, s, p) ==
    IF p >= Len(k.exists) THEN s
    ELSE
      LET gone(q) == ~k.exists[q + 1]
          into == IF reverse THEN rxn.product ELSE rxn.reactant
          from == IF reverse THEN rxn.reactant ELSE rxn.product
          level(t) == IF reverse THEN [t EXCEPT !.ropnet = 0, !.ropr = t.ropf]
                      ELSE [t EXCEPT !.ropnet = 0, !.ropf = t.ropr]
          s1 == IF p \in into /\ gone(p)
                THEN (IF level(s).ropf > 0
                         /\ \E rp \in 0..(Len(k.exists) - 1) : rp \in from /\ gone(rp)
                      THEN [ropf |-> 0, ropr |-> 0, ropnet |-> 0]
                      ELSE level(s))
                ELSE s
          s2 == IF p \in from /\ ~k.stable[p + 1] THEN level(s1) ELSE s1
      IN  phaseLoop(k, rxn, reverse, s2, p + 1)

\* InterfaceKinetics::updateROP for one reaction whose rates of progress
\* before the phase-existence block are rxn.ropf and rxn.ropr (the rate
\* providers' values): the net rate, then the block, entered when the check
\* counter is not zero.
updateROP(k, rxn) ==
    LET s0 == [ropf |-> rxn.ropf, ropr |-> rxn.ropr, ropnet |-> rxn.ropf - rxn.ropr]
        s  == IF k.check = 0 THEN s0
              ELSE IF rxn.ropr > rxn.ropf /\ rxn.ropr > 0
                   THEN phaseLoop(k, rxn, TRUE, s0, 0)
              ELSE IF rxn.ropf > rxn.ropr /\ rxn.ropf > 0
                   THEN phaseLoop(k, rxn, FALSE, s0, 0)
              ELSE s0
    IN  [op |-> "updateROP", status |-> "ok", checked |-> (k.check # 0),
         ropf |-> s.ropf, ropr |-> s.ropr, ropnet |-> s.ropnet]

\* the kinetics members after a call that left k
StoreKin(k, op) ==
    /\ m_phaseExists' = k.exists
    /\ m_phaseIsStable' = k.stable
    /\ m_phaseExistsCheck' = k.check
    /\ kinCall' = [op |-> op, status |-> k.status, checked |-> FALSE,
                   ropf |-> 0, ropr |-> 0, ropnet |-> 0]
    /\ UNCHANGED <<gridVars, configVars, solutionVars, cacheVars, bufferVars,
                   porousVars, solidVars, anchorVars>>
    /\ UNCHANGED <<m_trans, m_do_species, lastCall, selectedOk, evalLog>>

AddPhase ==
    /\ Len(m_phaseExists) < MaxPhases
    /\ StoreKin(addPhase(Kin), "addPhase")

\* a phase index: every phase added, and the first index out of bounds
SetPhaseExistence ==
    \E iphase \in 0..Len(m_phaseExists), exists \in 0..1 :
        StoreKin(setPhaseExistence(Kin, iphase, exists), "setPhaseExistence")

SetPhaseStability ==
    \E iphase \in 0..Len(m_phaseExists), isStable \in 0..1 :
        StoreKin(setPhaseStability(Kin, iphase, isStable), "setPhaseStability")

\* the reactions: one reactant phase and one product phase, the forward
\* rate above, below or equal to the reverse rate
Reactions ==
    {[reactant |-> {rp}, product |-> {pp}, ropf |-> r[1], ropr |-> r[2]] :
        rp \in 0..(Len(m_phaseExists) - 1), pp \in 0..(Len(m_phaseExists) - 1),
        r \in {<<2, 1>>, <<1, 2>>, <<1, 1>>}}

UpdateROP ==
    /\ \E rxn \in Reactions : kinCall' = updateROP(Kin, rxn)
    /\ UNCHANGED <<gridVars, configVars, solutionVars, cacheVars, bufferVars,
                   porousVars, solidVars, anchorVars>>
    /\ UNCHANGED <<m_trans, m_do_species, lastCall, selectedOk, evalLog>>
    /\ UNCHANGED <<m_phaseExists, m_phaseIsStable, m_phaseExistsCheck>>

\* the kinetics object as constructed without a phase
InitKinetics == Configured(DefaultEngine(2))

NextKinetics == AddPhase \/ SetPhaseExistence \/ SetPhaseStability \/ UpdateROP

SpecKinetics == InitKinetics /\ [][NextKinetics]_vars

\* the phases marked as not existing
MissingPhases == {p \in 1..Len(m_phaseExists) : ~m_phaseExists[p]}

\* C30: after any sequence of addPhase, setPhaseExistence and
\* setPhaseStability calls the phase-existence check counter is the number
\* of phases marked as not existing: never negative, zero exactly when all
\* phases exist; so updateROP runs its phase-existence block exactly when
\* some phase is marked as not existing.
C30_CounterCountsMissingPhases ==
    /\ m_phaseExistsCheck = Cardinality(MissingPhases)
    /\ m_phaseExistsCheck >= 0
    /\ m_phaseExistsCheck = 0 <=> \A p \in 1..Len(m_phaseExists) : m_phaseExists[p]
    /\ kinCall.op = "updateROP" => (kinCall.checked <=> MissingPhases # {})

\* Witness of C30: two of three phases have been marked as missing and one
\* of them as existing again, a third is unstable though it exists, and
\* updateROP has run its block and levelled the rates of a reaction.
C30_Witness ==
    /\ Len(m_phaseExists) = 3
    /\ m_phaseExistsCheck = 1
    /\ ~m_phaseExists[1]
    /\ m_phaseExists[2] /\ m_phaseIsStable[2]
    /\ m_phaseExists[3] /\ ~m_phaseIsStable[3]
    /\ kinCall.op = "updateROP"
    /\ kinCall.checked
    /\ kinCall.ropnet = 0
    /\ kinCall.ropf = kinCall.ropr /\ kinCall.ropf > 0
====
